---- MODULE Spec2Model ----
(***************************************************************************)
(* A model of gpud's NVIDIA telemetry core:                                *)
(*   - the NVML device monitor (package nvml: instance, Start,             *)
(*     pollXidEvents, Shutdown, Get, RecvXidEvents),                       *)
(*   - the "nvidia-smi --query" decoder and its scans (package query).     *)
(* The monitor is the specification Spec; the pure functions of package    *)
(* query are checked under specifications of their own, whose Init draws   *)
(* the inputs from bounded sets.                                           *)
(***************************************************************************)
EXTENDS Integers, Sequences, FiniteSets, TLC

\* ------------------------------------------------------------------ bounds
\* devices on the host
MaxDevices == 2
\* background loops the model lets Start launch
MaxLoops == 2
\* waits that return an event or a failure; later waits only time out
MaxWaits == 2
\* the model's cap on the event queue's capacity
MaxQueue == 1
\* Start calls that have passed the unlocked checks and wait for the lock
MaxPending == 1
\* native releases remembered in the release history
MaxReleases == 4

\* ------------------------------------------------------- program constants
\* make(chan *XidEvent, 100)
eventChCapacity == 100

\* the capacity of the queue in the model: the program's, capped by the bound
ChanCap == IF MaxQueue < eventChCapacity THEN MaxQueue ELSE eventChCapacity

NIL == "nil"
SUCCESS == "SUCCESS"
ERROR_TIMEOUT == "ERROR_TIMEOUT"
ERROR_UNKNOWN == "ERROR_UNKNOWN"
EventTypeXidCriticalError == "EventTypeXidCriticalError"
EventTypeDoubleBitEccError == "EventTypeDoubleBitEccError"

ErrNotInitialized == "nvml not initialized"
ErrNotFound == "nvml not found"
ErrGetDevices == "GetDevices failed"
ErrDevice == "failed to get device attribute or register events"
ErrFreeEventSet == "failed to free event set"
ErrShutdownNVML == "failed to shutdown NVML"
ErrQuery == "per-metric query failed"

Loops == 1..MaxLoops
\* the devices deviceLib.GetDevices() enumerates, in its order; a device's
\* number stands for its UUID
HostDevices == 1..MaxDevices

\* ------------------------------------------------------------ sequences
Range(s) == {s[i] : i \in DOMAIN s}

\* the sequences that list every element of the set S exactly once
Perms(S) ==
  {s \in [1..Cardinality(S) -> S] : \A i, j \in DOMAIN s : i # j => s[i] # s[j]}

\* the elements of the set of numbers S in ascending order
RECURSIVE SortedSeq(_)
SortedSeq(S) ==
  IF S = {} THEN <<>>
  ELSE LET m == CHOOSE x \in S : \A y \in S : x <= y
       IN <<m>> \o SortedSeq(S \ {m})

VARIABLES
  \* ---- instance fields
  nvmlLib,      \* inst.nvmlLib: "lib" or NIL
  nvmlExists,   \* inst.nvmlExists
  eventSet,     \* inst.eventSet: "set" or NIL
  devices,      \* inst.devices: the set of UUIDs in the map (none in a nil map)
  cancelled,    \* inst.rootCtx is done
  eventCh,      \* inst.eventCh: the buffered channel's content
  \* ---- goroutines
  pending,      \* Start calls between their unlocked checks and inst.mu.Lock()
  nLoops,       \* pollXidEvents goroutines launched so far
  lpc,          \* loop -> "none" | "top" | "call" | "waiting" | "timeout" |
                \*         "pub" | "done"
  levt,         \* loop -> the event it is about to publish, or NoEvent
  crashed,      \* the process died of a panic
  hasCh,        \* a consumer holds the channel RecvXidEvents returned
  \* ---- history
  nWaits,       \* the waits that have returned something other than a timeout
  published,    \* every event ever put on eventCh, in order
  releases,     \* the native handles released successfully, in order
  startedOK,    \* some Start call returned nil
  shutdownOK,   \* some Shutdown call returned nil
  lastOp,       \* the last completed method call and what it returned
  \* ---- package-level default instance
  defaultInstance,        \* "inst" once NewInstance has returned it, or NIL
  defaultInstanceReadyc,  \* the readiness channel: "open" or "closed"
  \* ---- package query
  fn            \* a call of a pure function of package query: its name, its
                \* argument and, once it has returned, its result

vars == <<nvmlLib, nvmlExists, eventSet, devices, cancelled, eventCh, pending,
          nLoops, lpc, levt, crashed, hasCh, nWaits, published,
          releases, startedOK, shutdownOK, lastOp, defaultInstance,
          defaultInstanceReadyc, fn>>

\* the monitor's variables
monitorVars == <<nvmlLib, nvmlExists, eventSet, devices, cancelled, eventCh,
                 pending, nLoops, lpc, levt, crashed, hasCh, nWaits, published,
                 releases, startedOK, shutdownOK, lastOp, defaultInstance,
                 defaultInstanceReadyc>>

instVars == <<nvmlLib, nvmlExists, eventSet, devices, cancelled>>
loopVars == <<nLoops, lpc, levt>>
defaultVars == <<defaultInstance, defaultInstanceReadyc>>
histVars == <<nWaits, published, releases, startedOK, shutdownOK, defaultVars,
              fn>>

\* the loop holds no event
NoEvent ==
  [EventType |-> NIL, Xid |-> 0, XidCriticalError |-> FALSE, Detail |-> NIL,
   Message |-> "", Error |-> NIL, wait |-> 0, loop |-> 0, src |-> NIL]

\* outNil says that the call returned a nil result, out lists the devices of a
\* non-nil one
NoOp == [op |-> "none", err |-> NIL, outNil |-> TRUE, out |-> <<>>, queries |-> 0,
         failed |-> <<0, 0>>, acts |-> {}, preRunning |-> FALSE,
         preShutdown |-> "never"]

\* the monitor is Running: a Start succeeded and no cancellation or release since
Running == startedOK /\ nvmlLib # NIL /\ ~cancelled

\* whether a Shutdown had returned nil when the call op was made; for a
\* Shutdown call, "last" says that it was the call completed just before
ShutdownBefore(op) ==
  IF op = "Shutdown" /\ lastOp.op = "Shutdown" /\ lastOp.err = NIL THEN "last"
  ELSE IF shutdownOK THEN "earlier"
  ELSE "never"

\* the record of a completed call: what it returned (err, outNil, out), the
\* per-device queries it issued (and, for a Get that a query failed, the
\* device and the number of that query), the native effects it had (acts), and, as
\* history, whether the monitor was Running when a Start call took the lock
\* and whether a Shutdown had succeeded before the call
Done(op, err, outNil, out, queries, acts) ==
  [op |-> op, err |-> err, outNil |-> outNil, out |-> out, queries |-> queries,
   failed |-> <<0, 0>>, acts |-> acts, preRunning |-> (op = "Start" /\ Running),
   preShutdown |-> ShutdownBefore(op)]

\* no call of package query is made
NoFn == [op |-> "none", done |-> FALSE]

\* NewInstance has returned: both native handles exist, nothing is started
MonitorInit ==
  /\ nvmlLib = "lib"
  /\ nvmlExists \in BOOLEAN
  /\ eventSet = "set"
  /\ devices = {}
  /\ cancelled = FALSE
  /\ eventCh = <<>>
  /\ pending = 0
  /\ nLoops = 0
  /\ lpc = [l \in Loops |-> "none"]
  /\ levt = [l \in Loops |-> NoEvent]
  /\ crashed = FALSE
  /\ hasCh = FALSE
  /\ nWaits = 0
  /\ published = <<>>
  /\ releases = <<>>
  /\ startedOK = FALSE
  /\ shutdownOK = FALSE
  /\ lastOp = NoOp
  /\ defaultInstance = NIL
  /\ defaultInstanceReadyc = "open"

Init == MonitorInit /\ fn = NoFn

\* ------------------------------------------------------------------ Start
\* the checks Start makes before it takes the lock
StartPrecheck(lib, exists) ==
  IF lib = NIL THEN ErrNotInitialized
  ELSE IF ~exists THEN ErrNotFound
  ELSE NIL

\* Start up to inst.mu.Lock()
StartCheck ==
  /\ ~crashed
  /\ LET e == StartPrecheck(nvmlLib, nvmlExists) IN
     IF e # NIL
     THEN /\ lastOp' = Done("Start", e, TRUE, <<>>, 0, {})
          /\ UNCHANGED pending
     ELSE /\ pending < MaxPending
          /\ pending' = pending + 1
          /\ UNCHANGED lastOp
  /\ UNCHANGED <<instVars, eventCh, loopVars, crashed, hasCh, histVars>>

\* what Start's locked body leaves in the device map: GetDevices fails
\* (devErr), or the attribute reads and the registration of the failAt-th
\* device fail (failAt > 0), or every device is registered (failAt = 0)
StartDevices(old, devErr, failAt) ==
  IF devErr THEN old
  ELSE IF failAt > 0 THEN {d \in HostDevices : d < failAt}
  ELSE HostDevices

StartErr(devErr, failAt) ==
  IF devErr THEN ErrGetDevices
  ELSE IF failAt > 0 THEN ErrDevice
  ELSE NIL

\* Start from inst.mu.Lock() to its return. The call began before any
\* Shutdown had succeeded: its unlocked check saw the library handle.
StartBody ==
  /\ ~crashed
  /\ pending > 0
  /\ \E devErr \in BOOLEAN, failAt \in 0..MaxDevices :
       LET e == StartErr(devErr, failAt) IN
       /\ e = NIL => nLoops < MaxLoops
       /\ devices' = StartDevices(devices, devErr, failAt)
       /\ IF e = NIL
          THEN /\ nLoops' = nLoops + 1
               /\ lpc' = [lpc EXCEPT ![nLoops + 1] = "top"]
               /\ startedOK' = TRUE
               /\ lastOp' = [Done("Start", NIL, TRUE, <<>>, 0, {"launch"})
                             EXCEPT !.preShutdown = "never"]
          ELSE /\ UNCHANGED <<nLoops, lpc, startedOK>>
               /\ lastOp' = [Done("Start", e, TRUE, <<>>, 0, {})
                             EXCEPT !.preShutdown = "never"]
  /\ pending' = pending - 1
  /\ UNCHANGED <<fn, defaultVars, nvmlLib, nvmlExists, eventSet, cancelled,
                 eventCh, levt,
                 crashed, hasCh, nWaits, published, releases, shutdownOK>>

\* --------------------------------------------------------------- Shutdown
\* mutant of ShutdownGuard: the guard is missing
ShutdownGuardMissing(lib) == FALSE

\* Shutdown's guard: the library handle is already gone
ShutdownGuard(lib) == lib = NIL

\* mutant of EventSetAfterFree: the field is not cleared
EventSetKept == "set"

\* inst.eventSet after a successful Free
EventSetAfterFree == NIL

\* inst.nvmlLib after a successful library shutdown
LibAfterShutdown == NIL

\* Shutdown's body, given what the two native release calls would return
ShutdownOutcome(lib, es, freeRet, libRet) ==
  IF ShutdownGuard(lib)
  THEN [lib |-> lib, es |-> es, err |-> NIL, acts |-> {}]
  ELSE IF es # NIL /\ freeRet # SUCCESS
  THEN [lib |-> lib, es |-> es, err |-> ErrFreeEventSet,
        acts |-> {"cancel", "free_fail"}]
  ELSE LET freed == IF es # NIL THEN {"free_ok"} ELSE {} IN
       IF libRet # SUCCESS
       THEN [lib |-> lib, es |-> EventSetAfterFree, err |-> ErrShutdownNVML,
             acts |-> {"cancel", "lib_fail"} \cup freed]
       ELSE [lib |-> LibAfterShutdown, es |-> EventSetAfterFree, err |-> NIL,
             acts |-> {"cancel", "lib_ok"} \cup freed]

\* the release history after a call that performed acts
Released(acts) ==
  LET a == IF "free_ok" \in acts THEN <<"eventSet">> ELSE <<>>
      b == IF "lib_ok" \in acts THEN <<"lib">> ELSE <<>>
      r == releases \o a \o b
  IN IF Len(r) <= MaxReleases THEN r ELSE releases

Shutdown ==
  /\ ~crashed
  /\ \E freeRet \in {SUCCESS, ERROR_UNKNOWN}, libRet \in {SUCCESS, ERROR_UNKNOWN} :
       LET o == ShutdownOutcome(nvmlLib, eventSet, freeRet, libRet) IN
       /\ nvmlLib' = o.lib
       /\ eventSet' = o.es
       /\ cancelled' = (cancelled \/ "cancel" \in o.acts)
       /\ releases' = Released(o.acts)
       /\ shutdownOK' = (shutdownOK \/ o.err = NIL)
       /\ lastOp' = Done("Shutdown", o.err, TRUE, <<>>, 0, o.acts)
  /\ UNCHANGED <<fn, defaultVars, nvmlExists, devices, eventCh, pending,
                 loopVars, crashed,
                 hasCh, nWaits, published, startedOK>>

\* the parent context given to NewInstance is cancelled
ParentCancel ==
  /\ ~crashed
  /\ ~cancelled
  /\ cancelled' = TRUE
  /\ UNCHANGED <<nvmlLib, nvmlExists, eventSet, devices, eventCh, pending,
                 loopVars, crashed, hasCh, histVars, lastOp>>

\* ---------------------------------------------------------- pollXidEvents
\* the outcomes of inst.eventSet.Wait(5000): the return code and, on success,
\* the event's type and data
WaitOutcomes ==
  {[ret |-> ERROR_TIMEOUT, etype |-> NIL, xid |-> 0],
   [ret |-> ERROR_UNKNOWN, etype |-> NIL, xid |-> 0],
   [ret |-> SUCCESS, etype |-> EventTypeXidCriticalError, xid |-> 79]}

\* the fault codes the static fault-detail table knows
KnownXids == {79}

\* nvidia_query_xid.GetDetail
GetDetail(xid) == IF xid \in KnownXids THEN "detail" ELSE NIL

\* mutant of EventOf: the event of a failed wait carries a fault code
EventOfWithCode(o, w, l) ==
  IF o.ret # SUCCESS
  THEN [EventType |-> EventTypeXidCriticalError, Xid |-> 79,
        XidCriticalError |-> TRUE, Detail |-> NIL,
        Message |-> "event set wait returned non-success", Error |-> o.ret,
        wait |-> w, loop |-> l, src |-> o.ret]
  ELSE LET det == IF o.xid > 0 THEN GetDetail(o.xid) ELSE NIL IN
       [EventType |-> o.etype, Xid |-> o.xid,
        XidCriticalError |-> (o.etype = EventTypeXidCriticalError),
        Detail |-> det,
        Message |-> IF det # NIL THEN "received event with a known xid"
                    ELSE "received event but xid unknown",
        Error |-> NIL, wait |-> w, loop |-> l, src |-> o.ret]

\* the XidEvent the loop builds from a wait that returned o; wait, loop and
\* src say which wait of which loop it came from and what that wait returned
\* (history, not program state)
EventOf(o, w, l) ==
  IF o.ret # SUCCESS
  THEN [EventType |-> NIL, Xid |-> 0, XidCriticalError |-> FALSE, Detail |-> NIL,
        Message |-> "event set wait returned non-success", Error |-> o.ret,
        wait |-> w, loop |-> l, src |-> o.ret]
  ELSE LET det == IF o.xid > 0 THEN GetDetail(o.xid) ELSE NIL IN
       [EventType |-> o.etype, Xid |-> o.xid,
        XidCriticalError |-> (o.etype = EventTypeXidCriticalError),
        Detail |-> det,
        Message |-> IF det # NIL THEN "received event with a known xid"
                    ELSE "received event but xid unknown",
        Error |-> NIL, wait |-> w, loop |-> l, src |-> o.ret]

\* mutant of LoopAfterWait: the continue after a timeout is missing
LoopAfterWaitNoContinue(ret) == "pub"

\* where the loop goes after a wait returned ret: a timeout re-polls, any
\* other outcome is published
LoopAfterWait(ret) == IF ret = ERROR_TIMEOUT THEN "timeout" ELSE "pub"

\* mutant of CanSend: the channel is unbounded
CanSendUnbounded(ch) == TRUE

\* the send case of the publishing select is ready: the channel has room
CanSend(ch) == Len(ch) < ChanCap

\* the cancellation case of the select at the top of the loop is ready
TopCancelReady(c) == c

\* mutant of PublishCancelReady: the publishing select has no cancellation case
PublishCancelNever(c) == FALSE

\* the cancellation case of the publishing select is ready
PublishCancelReady(c) == c

\* the select at the top of the loop: return when cancelled, else go on
LoopCheck(l) ==
  /\ ~crashed
  /\ lpc[l] = "top"
  /\ lpc' = [lpc EXCEPT ![l] = IF TopCancelReady(cancelled) THEN "done" ELSE "call"]
  /\ UNCHANGED <<instVars, eventCh, pending, nLoops, levt, crashed, hasCh,
                 histVars, lastOp>>

\* the loop reads inst.eventSet (without the lock) and calls Wait on it; a
\* nil event set makes the call panic and the process die
LoopWaitCall(l) ==
  /\ ~crashed
  /\ lpc[l] = "call"
  /\ IF eventSet = NIL
     THEN crashed' = TRUE /\ UNCHANGED lpc
     ELSE lpc' = [lpc EXCEPT ![l] = "waiting"] /\ UNCHANGED crashed
  /\ UNCHANGED <<instVars, eventCh, pending, nLoops, levt, hasCh, histVars,
                 lastOp>>

\* Wait returns: a timeout, or (MaxWaits times at most) an event or a failure
LoopWaitReturn(l) ==
  /\ ~crashed
  /\ lpc[l] = "waiting"
  /\ \E o \in WaitOutcomes :
       /\ nWaits >= MaxWaits => o.ret = ERROR_TIMEOUT
       /\ nWaits' = IF o.ret = ERROR_TIMEOUT THEN nWaits ELSE nWaits + 1
       /\ lpc' = [lpc EXCEPT ![l] = LoopAfterWait(o.ret)]
       /\ levt' = [levt EXCEPT ![l] =
                     IF LoopAfterWait(o.ret) = "pub"
                     THEN EventOf(o, nWaits', l) ELSE NoEvent]
  /\ UNCHANGED <<fn, defaultVars, instVars, eventCh, pending, nLoops, crashed, hasCh,
                 published, releases, startedOK, shutdownOK, lastOp>>

\* after a timeout the loop logs it and continues with the next iteration
LoopRetry(l) ==
  /\ ~crashed
  /\ lpc[l] = "timeout"
  /\ lpc' = [lpc EXCEPT ![l] = "top"]
  /\ UNCHANGED <<instVars, eventCh, pending, nLoops, levt, crashed, hasCh,
                 histVars, lastOp>>

\* the publishing select takes its send case
LoopPublish(l) ==
  /\ ~crashed
  /\ lpc[l] = "pub"
  /\ CanSend(eventCh)
  /\ eventCh' = Append(eventCh, levt[l])
  /\ published' = Append(published, levt[l])
  /\ lpc' = [lpc EXCEPT ![l] = "top"]
  /\ levt' = [levt EXCEPT ![l] = NoEvent]
  /\ UNCHANGED <<fn, defaultVars, instVars, pending, nLoops, crashed, hasCh, nWaits,
                 releases, startedOK, shutdownOK, lastOp>>

\* the publishing select takes its cancellation case: the loop returns and
\* the event is abandoned
LoopAbandon(l) ==
  /\ ~crashed
  /\ lpc[l] = "pub"
  /\ PublishCancelReady(cancelled)
  /\ lpc' = [lpc EXCEPT ![l] = "done"]
  /\ levt' = [levt EXCEPT ![l] = NoEvent]
  /\ UNCHANGED <<instVars, eventCh, pending, nLoops, crashed, hasCh, histVars,
                 lastOp>>

\* ---------------------------------------------------- RecvXidEvents, consumer
RecvXidEvents ==
  /\ ~crashed
  /\ hasCh' = (hasCh \/ nvmlLib # NIL)
  /\ lastOp' = Done("RecvXidEvents", NIL, nvmlLib = NIL, <<>>, 0, {})
  /\ UNCHANGED <<instVars, eventCh, pending, loopVars, crashed, histVars>>

\* a consumer receives from the channel it was given
Consume ==
  /\ ~crashed
  /\ hasCh
  /\ eventCh # <<>>
  /\ eventCh' = Tail(eventCh)
  /\ UNCHANGED <<instVars, pending, loopVars, crashed, hasCh, histVars, lastOp>>

\* -------------------------------------------------------------------- Get
\* the per-metric queries Get issues for one device: clock events, clock
\* speed, memory, NVLink, power, temperature, utilization, processes, ECC
NMetrics == 9

\* the queries of a device the model lets fail: the first and the last
FailMetrics == {1, NMetrics}

\* mutant of GetGuard: the guard is missing
GetGuardMissing(lib) == FALSE

\* Get's guard: the library handle is gone
GetGuard(lib) == lib = NIL

\* mutant of PartialDevices: a device enters the list after its queries
PartialDevicesAfterQueries(order, failDev) == SubSeq(order, 1, failDev - 1)

\* st.DeviceInfos when a query of the failDev-th device of the iteration
\* fails: every device is appended before its first query
PartialDevices(order, failDev) == SubSeq(order, 1, failDev)

\* Get's result when the map is iterated in the given order and the
\* failMetric-th query of the failDev-th device fails (failDev = 0: none)
GetOutcome(lib, order, failDev, failMetric) ==
  IF GetGuard(lib)
  THEN [outNil |-> TRUE, out |-> <<>>, err |-> ErrNotInitialized, queries |-> 0,
        failed |-> <<0, 0>>]
  ELSE IF failDev > 0
  THEN [outNil |-> FALSE, out |-> PartialDevices(order, failDev), err |-> ErrQuery,
        queries |-> (failDev - 1) * NMetrics + failMetric,
        failed |-> <<order[failDev], failMetric>>]
  ELSE [outNil |-> FALSE, out |-> SortedSeq(Range(order)), err |-> NIL,
        queries |-> Len(order) * NMetrics, failed |-> <<0, 0>>]

Get ==
  /\ ~crashed
  /\ \E order \in Perms(devices), failDev \in 0..Cardinality(devices),
        failMetric \in FailMetrics :
       LET o == GetOutcome(nvmlLib, order, failDev, failMetric) IN
       lastOp' = [Done("Get", o.err, o.outNil, o.out, o.queries, {})
                    EXCEPT !.failed = o.failed]
  /\ UNCHANGED <<instVars, eventCh, pending, loopVars, crashed, hasCh, histVars>>

\* ------------------------------------------------------------------- Next
Next ==
  \/ StartCheck
  \/ StartBody
  \/ Shutdown
  \/ Get
  \/ RecvXidEvents
  \/ ParentCancel
  \/ Consume
  \/ \E l \in Loops : LoopCheck(l)
  \/ \E l \in Loops : LoopWaitCall(l)
  \/ \E l \in Loops : LoopWaitReturn(l)
  \/ \E l \in Loops : LoopRetry(l)
  \/ \E l \in Loops : LoopPublish(l)
  \/ \E l \in Loops : LoopAbandon(l)

Spec == Init /\ [][Next]_vars

\* the Go scheduler runs every runnable goroutine, and every Wait call returns
LoopFairness ==
  \A l \in Loops :
    /\ WF_vars(LoopCheck(l))
    /\ WF_vars(LoopWaitCall(l))
    /\ WF_vars(LoopWaitReturn(l))
    /\ WF_vars(LoopRetry(l))
    /\ WF_vars(LoopPublish(l))
    /\ WF_vars(LoopAbandon(l))

SpecLive == Init /\ [][Next]_vars /\ LoopFairness

\* ------------------------------------------------- the default instance
ErrNewInstance == "failed to initialize NVML or to create event set"

\* what NewInstance returns, given the return codes of nvmlLib.Init() and
\* nvmlLib.EventSetCreate()
NewInstanceErr(initRet, createRet) ==
  IF initRet # SUCCESS \/ createRet # SUCCESS THEN ErrNewInstance ELSE NIL

\* what Start returns when called on a fresh instance under defaultInstanceMu
DefaultStartErr(exists, devErr, failAt) ==
  IF StartPrecheck("lib", exists) # NIL THEN StartPrecheck("lib", exists)
  ELSE StartErr(devErr, failAt)

\* the process has made no StartDefaultInstance call: there is no instance
InitDefault ==
  /\ nvmlLib = NIL
  /\ nvmlExists = FALSE
  /\ eventSet = NIL
  /\ devices = {}
  /\ cancelled = FALSE
  /\ eventCh = <<>>
  /\ pending = 0
  /\ nLoops = 0
  /\ lpc = [l \in Loops |-> "none"]
  /\ levt = [l \in Loops |-> NoEvent]
  /\ crashed = FALSE
  /\ hasCh = FALSE
  /\ nWaits = 0
  /\ published = <<>>
  /\ releases = <<>>
  /\ startedOK = FALSE
  /\ shutdownOK = FALSE
  /\ lastOp = NoOp
  /\ defaultInstance = NIL
  /\ defaultInstanceReadyc = "open"
  /\ fn = NoFn

\* StartDefaultInstance, under defaultInstanceMu: return nil when an instance
\* is stored; else store what NewInstance returns, return its error if it
\* failed, and otherwise return what Start returns, closing the readiness
\* channel on the way out
StartDefaultInstance ==
  /\ ~crashed
  /\ IF defaultInstance # NIL
     THEN /\ lastOp' = Done("StartDefaultInstance", NIL, TRUE, <<>>, 0, {})
          /\ UNCHANGED <<instVars, loopVars, startedOK, defaultVars>>
     ELSE \E initRet \in {SUCCESS, ERROR_UNKNOWN},
             createRet \in {SUCCESS, ERROR_UNKNOWN},
             exists \in BOOLEAN, devErr \in BOOLEAN, failAt \in 0..MaxDevices :
            IF NewInstanceErr(initRet, createRet) # NIL
            THEN /\ lastOp' = Done("StartDefaultInstance",
                                   NewInstanceErr(initRet, createRet), TRUE,
                                   <<>>, 0, {})
                 /\ UNCHANGED <<instVars, loopVars, startedOK, defaultVars>>
            ELSE LET e == DefaultStartErr(exists, devErr, failAt) IN
                 /\ defaultInstance' = "inst"
                 /\ defaultInstanceReadyc' = "closed"
                 /\ nvmlLib' = "lib"
                 /\ nvmlExists' = exists
                 /\ eventSet' = "set"
                 /\ devices' = IF StartPrecheck("lib", exists) # NIL THEN devices
                               ELSE StartDevices(devices, devErr, failAt)
                 /\ IF e = NIL
                    THEN /\ nLoops' = nLoops + 1
                         /\ lpc' = [lpc EXCEPT ![nLoops + 1] = "top"]
                         /\ startedOK' = TRUE
                         /\ lastOp' = Done("StartDefaultInstance", NIL, TRUE,
                                           <<>>, 0, {"launch"})
                    ELSE /\ UNCHANGED <<nLoops, lpc, startedOK>>
                         /\ lastOp' = Done("StartDefaultInstance", e, TRUE,
                                           <<>>, 0, {})
                 /\ UNCHANGED <<cancelled, levt>>
  /\ UNCHANGED <<fn, eventCh, pending, crashed, hasCh, nWaits, published,
                 releases, shutdownOK>>

\* DefaultInstanceReady returns the readiness channel; the caller's receive
\* on it proceeds when it is closed (acts records the channel's state)
DefaultInstanceReady ==
  /\ ~crashed
  /\ lastOp' = Done("DefaultInstanceReady", NIL, FALSE, <<>>, 0,
                    {defaultInstanceReadyc})
  /\ UNCHANGED <<instVars, eventCh, pending, loopVars, crashed, hasCh, histVars>>

\* the process works through the default instance: StartDefaultInstance,
\* DefaultInstanceReady and, on the instance DefaultInstance() returns, the
\* monitor's methods, beside its poll loop
SpecDefault ==
  /\ InitDefault
  /\ [][\/ StartDefaultInstance
        \/ DefaultInstanceReady
        \/ (defaultInstance # NIL /\ Shutdown)
        \/ (defaultInstance # NIL /\ Get)
        \/ (defaultInstance # NIL /\ RecvXidEvents)
        \/ (defaultInstance # NIL /\ ParentCancel)
        \/ Consume
        \/ \E l \in Loops : LoopCheck(l)
        \/ \E l \in Loops : LoopWaitCall(l)
        \/ \E l \in Loops : LoopWaitReturn(l)
        \/ \E l \in Loops : LoopRetry(l)
        \/ \E l \in Loops : LoopPublish(l)
        \/ \E l \in Loops : LoopAbandon(l)]_vars

\* =========================================================== package query
\* a []string: nil, or the list of its elements (make([]string, 0) is the
\* empty list that is not nil)
NilSlice == [isNil |-> TRUE, elems |-> <<>>]
MakeSlice == [isNil |-> FALSE, elems |-> <<>>]
AppendTo(sl, x) == [isNil |-> FALSE, elems |-> Append(sl.elems, x)]
AppendAll(sl, xs) ==
  IF Len(xs) = 0 THEN sl ELSE [isNil |-> FALSE, elems |-> sl.elems \o xs]

\* the ending shared by the scans: nil when nothing was found
NilIfEmpty(sl) == IF Len(sl.elems) = 0 THEN NilSlice ELSE sl

\* the pure specifications leave the monitor as NewInstance returned it
MonitorIdle == MonitorInit /\ nvmlExists

\* ------------------------------------------------------ FindHWSlowdownErrs
ClockEventsActive == "Active"
ClockEventsNotActive == "Not Active"

\* the values a clock-event flag takes in the model
FlagValues == {ClockEventsActive, ClockEventsNotActive, "N/A"}

\* g.ClockEventReasons, nil (present = FALSE) or the flags of the record
NoClockEventReasons ==
  [present |-> FALSE, HWSlowdown |-> "", HWThermalSlowdown |-> "",
   HWPowerBrakeSlowdown |-> ""]

SMIClockEventReasons ==
  {NoClockEventReasons} \cup
  [present : {TRUE}, HWSlowdown : FlagValues, HWThermalSlowdown : FlagValues,
   HWPowerBrakeSlowdown : FlagValues]

ErrThermalSlowdown(id) ==
  <<id, "ClockEventReasons.HWSlowdown.ThermalSlowdown Active">>
ErrPowerBrakeSlowdown(id) ==
  <<id, "ClockEventReasons.HWSlowdown.PowerBrakeSlowdown Active">>

\* mutant of HWSlowdownActive: the top-level flag is not looked at
HWSlowdownUnchecked(cer) == cer.present

\* the condition under which the device's sub-flags are looked at
HWSlowdownActive(cer) == cer.present /\ cer.HWSlowdown = ClockEventsActive

\* NvidiaSMIGPU.FindHWSlowdownErrs
GPU_FindHWSlowdownErrs(g) ==
  LET cer == g.ClockEventReasons
      e0 == MakeSlice
      e1 == IF HWSlowdownActive(cer) /\ cer.HWThermalSlowdown = ClockEventsActive
            THEN AppendTo(e0, ErrThermalSlowdown(g.ID)) ELSE e0
      e2 == IF HWSlowdownActive(cer) /\ cer.HWPowerBrakeSlowdown = ClockEventsActive
            THEN AppendTo(e1, ErrPowerBrakeSlowdown(g.ID)) ELSE e1
  IN NilIfEmpty(e2)

\* the loop of SMIOutput.FindHWSlowdownErrs over the first n devices
RECURSIVE HWSlowdownLoop(_, _)
HWSlowdownLoop(gpus, n) ==
  IF n = 0 THEN MakeSlice
  ELSE LET errs == HWSlowdownLoop(gpus, n - 1)
           g == gpus[n]
       IN IF ~g.ClockEventReasons.present THEN errs
          ELSE LET herrs == GPU_FindHWSlowdownErrs(g)
               IN IF Len(herrs.elems) = 0 THEN errs
                  ELSE AppendAll(errs, herrs.elems)

\* SMIOutput.FindHWSlowdownErrs
SMIOutput_FindHWSlowdownErrs(gpus) == NilIfEmpty(HWSlowdownLoop(gpus, Len(gpus)))

\* devices of a scanned document
MaxGPUs == 2

\* the device lists the scan is given: device i has the identifier i
HWSlowdownInputs ==
  UNION {[1..n -> SMIClockEventReasons] : n \in 0..MaxGPUs}

InitHWSlowdown ==
  /\ MonitorIdle
  /\ \E cers \in HWSlowdownInputs :
       fn = [op |-> "FindHWSlowdownErrs", done |-> FALSE,
             arg |-> [i \in DOMAIN cers |-> [ID |-> i, ClockEventReasons |-> cers[i]]]]

\* both scans are called: the per-device one on every device, and the
\* document's
CallFindHWSlowdownErrs ==
  /\ fn.op = "FindHWSlowdownErrs"
  /\ ~fn.done
  /\ fn' = [op |-> fn.op, done |-> TRUE, arg |-> fn.arg,
            res |-> [gpu |-> [i \in DOMAIN fn.arg |-> GPU_FindHWSlowdownErrs(fn.arg[i])],
                     doc |-> SMIOutput_FindHWSlowdownErrs(fn.arg)]]
  /\ UNCHANGED monitorVars

SpecHWSlowdown == InitHWSlowdown /\ [][CallFindHWSlowdownErrs]_vars

\* the entries of the list elems that are about device id
EntriesOf(id, elems) == {k \in DOMAIN elems : elems[k][1] = id}

\* C10: for a device whose top-level HW Slowdown flag is not "Active", or
\* whose clock-event record is absent, the scans report no anomaly whatever
\* its two sub-flags say; when the top-level flag is "Active", the thermal
\* sub-flag is reported if and only if it is "Active", and so is the power
\* brake sub-flag, each independently of the other. This holds of the
\* per-device scan and, device by device, of the document's.
C10_HWSlowdownShortCircuit ==
  (fn.op = "FindHWSlowdownErrs" /\ fn.done) =>
    \A i \in DOMAIN fn.arg :
      LET cer == fn.arg[i].ClockEventReasons
          r == fn.res.gpu[i].elems
          d == fn.res.doc.elems
          top == cer.present /\ cer.HWSlowdown = "Active"
          th == cer.HWThermalSlowdown = "Active"
          pb == cer.HWPowerBrakeSlowdown = "Active"
          n == (IF th THEN 1 ELSE 0) + (IF pb THEN 1 ELSE 0)
      IN /\ ~top => (r = <<>> /\ EntriesOf(i, d) = {})
         /\ top => /\ Len(r) = n
                   /\ Cardinality(EntriesOf(i, d)) = n
                   /\ (th <=> \E k \in DOMAIN r : r[k] = ErrThermalSlowdown(i))
                   /\ (pb <=> \E k \in DOMAIN r : r[k] = ErrPowerBrakeSlowdown(i))
                   /\ (th <=> \E k \in DOMAIN d : d[k] = ErrThermalSlowdown(i))
                   /\ (pb <=> \E k \in DOMAIN d : d[k] = ErrPowerBrakeSlowdown(i))

\* the scans have returned for a device whose top-level flag is "Not Active"
\* and whose two sub-flags are "Active", and a device whose top-level flag is
\* "Active" with one sub-flag "Active"
C10_Witness ==
  /\ fn.op = "FindHWSlowdownErrs"
  /\ fn.done
  /\ \E i, j \in DOMAIN fn.arg :
       /\ fn.arg[i].ClockEventReasons =
            [present |-> TRUE, HWSlowdown |-> "Not Active",
             HWThermalSlowdown |-> "Active", HWPowerBrakeSlowdown |-> "Active"]
       /\ fn.arg[j].ClockEventReasons =
            [present |-> TRUE, HWSlowdown |-> "Active",
             HWThermalSlowdown |-> "Not Active", HWPowerBrakeSlowdown |-> "Active"]
       /\ fn.res.gpu[i].isNil
       /\ Len(fn.res.doc.elems) = 1

\* ------------------------------------------------------ ParseSMIQueryOutput
\* a []byte is the sequence of its characters
Whitespace == {" ", "\t", "\r", "\n"}

HasPrefix(s, p) == Len(s) >= Len(p) /\ SubSeq(s, 1, Len(p)) = p
HasSuffix(s, p) == Len(s) >= Len(p) /\ SubSeq(s, Len(s) - Len(p) + 1, Len(s)) = p

\* the positions at which sub occurs in s
Occurrences(s, sub) ==
  {i \in 1..(Len(s) - Len(sub) + 1) : SubSeq(s, i, i + Len(sub) - 1) = sub}

BytesContains(s, sub) == Occurrences(s, sub) # {}

Min(S) == CHOOSE x \in S : \A y \in S : x <= y

\* bytes.TrimSpace
RECURSIVE TrimLeft(_)
TrimLeft(s) ==
  IF Len(s) > 0 /\ Head(s) \in Whitespace THEN TrimLeft(Tail(s)) ELSE s

RECURSIVE TrimRight(_)
TrimRight(s) ==
  IF Len(s) > 0 /\ s[Len(s)] \in Whitespace
  THEN TrimRight(SubSeq(s, 1, Len(s) - 1)) ELSE s

TrimSpace(s) == TrimRight(TrimLeft(s))

\* bytes.Repeat / strings.Repeat of one character
Repeat(c, n) == [i \in 1..n |-> c]

\* bytes.Replace(s, old, new, 1)
ReplaceFirst(s, old, new) ==
  IF ~BytesContains(s, old) THEN s
  ELSE LET i == Min(Occurrences(s, old))
       IN SubSeq(s, 1, i - 1) \o new \o SubSeq(s, i + Len(old), Len(s))

\* bytes.Split(s, sep)[0]
SplitFirst(s, sep) ==
  IF ~BytesContains(s, sep) THEN s
  ELSE SubSeq(s, 1, Min(Occurrences(s, sep)) - 1)

\* bytes.Split(s, sep), sep not empty
RECURSIVE BytesSplit(_, _)
BytesSplit(s, sep) ==
  IF ~BytesContains(s, sep) THEN <<s>>
  ELSE LET i == Min(Occurrences(s, sep))
       IN <<SubSeq(s, 1, i - 1)>> \o BytesSplit(SubSeq(s, i + Len(sep), Len(s)), sep)

\* bytes.Join(parts, sep)
RECURSIVE BytesJoin(_, _)
BytesJoin(parts, sep) ==
  IF Len(parts) = 0 THEN <<>>
  ELSE IF Len(parts) = 1 THEN parts[1]
  ELSE parts[1] \o sep \o BytesJoin(Tail(parts), sep)

\* fmt.Sprintf("%d", n), n >= 0
DecimalDigits == <<"0", "1", "2", "3", "4", "5", "6", "7", "8", "9">>

RECURSIVE FormatInt(_)
FormatInt(n) ==
  IF n < 10 THEN <<DecimalDigits[n + 1]>>
  ELSE FormatInt(n \div 10) \o <<DecimalDigits[(n % 10) + 1]>>

getKey(line) == TrimSpace(BytesSplit(line, <<":">>)[1])

\* the keys whose children the rewrite pulls up to the key's own level
HasNestedKey(lastKey) ==
  \/ HasPrefix(lastKey, <<"H","W"," ","S","l","o","w","d","o","w","n">>)
  \/ HasPrefix(lastKey, <<"H","W"," ","T","h","e","r","m","a","l"," ","S","l","o","w","d","o","w","n">>)
  \/ HasPrefix(lastKey, <<"P","r","o","c","e","s","s"," ","I","D">>)
  \/ HasPrefix(lastKey, <<"P","r","o","c","e","s","s"," ","T","y","p","e">>)
  \/ HasPrefix(lastKey, <<"P","r","o","c","e","s","s"," ","N","a","m","e">>)

HasProcessKey(lastKey) ==
  \/ HasPrefix(lastKey, <<"P","r","o","c","e","s","s"," ","I","D">>)
  \/ HasPrefix(lastKey, <<"P","r","o","c","e","s","s"," ","T","y","p","e">>)
  \/ HasPrefix(lastKey, <<"P","r","o","c","e","s","s"," ","N","a","m","e">>)

\* mutant of IsDeviceLine: any line that starts with GPU opens a device block
IsDeviceLineAnyGPU(currentLine) == HasPrefix(currentLine, <<"G","P","U">>)

IsDeviceLine(currentLine) == HasPrefix(currentLine, <<"G","P","U"," ","0","0","0","0","0">>)

\* mutant of RewriteLine: the None rule is tried before the colon rule
RewriteLineNoneFirst(currentLine, lastKey, lastIndent, gpuCursor) ==
  IF IsDeviceLine(currentLine)
  THEN <<"G","P","U">> \o FormatInt(gpuCursor) \o <<":">>
  ELSE IF HasSuffix(TrimSpace(currentLine), <<"N","o","n","e">>)
  THEN ReplaceFirst(currentLine, <<"N","o","n","e">>, <<"n","u","l","l">>)
  ELSE IF ~HasSuffix(currentLine, <<":">>) /\ ~BytesContains(currentLine, <<":">>)
  THEN Append(currentLine, ":")
  ELSE IF HasNestedKey(lastKey)
  THEN Repeat(" ", lastIndent)
         \o (IF HasProcessKey(lastKey) THEN <<"P","r","o","c","e","s","s"," ">> ELSE <<>>)
         \o TrimSpace(currentLine)
  ELSE currentLine

\* the switch of the rewrite loop: the line that replaces currentLine
RewriteLine(currentLine, lastKey, lastIndent, gpuCursor) ==
  IF IsDeviceLine(currentLine)
  THEN <<"G","P","U">> \o FormatInt(gpuCursor) \o <<":">>
  ELSE IF ~HasSuffix(currentLine, <<":">>) /\ ~BytesContains(currentLine, <<":">>)
  THEN Append(currentLine, ":")
  ELSE IF HasSuffix(TrimSpace(currentLine), <<"N","o","n","e">>)
  THEN ReplaceFirst(currentLine, <<"N","o","n","e">>, <<"n","u","l","l">>)
  ELSE IF HasNestedKey(lastKey)
  THEN Repeat(" ", lastIndent)
         \o (IF HasProcessKey(lastKey) THEN <<"P","r","o","c","e","s","s"," ">> ELSE <<>>)
         \o TrimSpace(currentLine)
  ELSE currentLine

\* the state of the rewrite loop before its first iteration
RewriteStart ==
  [processedLines |-> <<>>, lastIndent |-> 0, gpuCursor |-> 0, prevGPUID |-> <<>>]

\* one iteration of the rewrite loop
RewriteStep(st, currentLine) ==
  IF Len(currentLine) = 0 THEN st
  ELSE IF BytesContains(currentLine, <<"=","=","=">>) \/ BytesContains(currentLine, <<"N","V","S","M","I"," ","L","O","G">>)
  THEN st
  ELSE LET lastLine == IF Len(st.processedLines) > 0
                       THEN st.processedLines[Len(st.processedLines)] ELSE <<>>
           indentLevel == Len(currentLine) - Len(TrimSpace(currentLine))
           gpuIDLine == IF st.prevGPUID # <<>>
                        THEN Repeat(" ", indentLevel) \o <<"I","D",":"," ">> \o st.prevGPUID
                        ELSE <<>>
           lastKey == getKey(lastLine)
           newLine == RewriteLine(currentLine, lastKey, st.lastIndent, st.gpuCursor)
       IN [processedLines |->
             (IF gpuIDLine # <<>> THEN Append(st.processedLines, gpuIDLine)
              ELSE st.processedLines) \o <<newLine>>,
           lastIndent |-> Len(newLine) - Len(TrimSpace(newLine)),
           gpuCursor |-> IF IsDeviceLine(currentLine) THEN st.gpuCursor + 1
                         ELSE st.gpuCursor,
           prevGPUID |-> IF IsDeviceLine(currentLine) THEN currentLine ELSE <<>>]

\* the rewrite loop over the first n lines
RECURSIVE RewriteLoop(_, _)
RewriteLoop(splits, n) ==
  IF n = 0 THEN RewriteStart ELSE RewriteStep(RewriteLoop(splits, n - 1), splits[n])

\* the rewritten text
ProcessedOutput(b) ==
  LET splits == BytesSplit(b, <<"\n">>)
  IN BytesJoin(RewriteLoop(splits, Len(splits)).processedLines, <<"\n">>)

\* the json tags of rawSMIQueryOutput and the kinds of their fields
Fields_rawSMIQueryOutput ==
  {<<<<"T","i","m","e","s","t","a","m","p">>, "string">>,
   <<<<"D","r","i","v","e","r"," ","V","e","r","s","i","o","n">>, "string">>,
   <<<<"C","U","D","A"," ","V","e","r","s","i","o","n">>, "string">>,
   <<<<"A","t","t","a","c","h","e","d"," ","G","P","U","s">>, "int">>,
   <<<<"G","P","U","0">>, "NvidiaSMIGPU">>,
   <<<<"G","P","U","1">>, "NvidiaSMIGPU">>,
   <<<<"G","P","U","2">>, "NvidiaSMIGPU">>,
   <<<<"G","P","U","3">>, "NvidiaSMIGPU">>,
   <<<<"G","P","U","4">>, "NvidiaSMIGPU">>,
   <<<<"G","P","U","5">>, "NvidiaSMIGPU">>,
   <<<<"G","P","U","6">>, "NvidiaSMIGPU">>,
   <<<<"G","P","U","7">>, "NvidiaSMIGPU">>}

\* the json tags of smiQueryOutputFallback and the kinds of their fields
Fields_smiQueryOutputFallback ==
  {<<<<"T","i","m","e","s","t","a","m","p">>, "string">>,
   <<<<"D","r","i","v","e","r"," ","V","e","r","s","i","o","n">>, "string">>,
   <<<<"C","U","D","A"," ","V","e","r","s","i","o","n">>, "string">>,
   <<<<"A","t","t","a","c","h","e","d"," ","G","P","U","s">>, "int">>}

\* the json tags of NvidiaSMIGPU and the kinds of their fields
Fields_NvidiaSMIGPU ==
  {<<<<"I","D">>, "string">>,
   <<<<"P","r","o","d","u","c","t"," ","N","a","m","e">>, "string">>,
   <<<<"P","r","o","d","u","c","t"," ","B","r","a","n","d">>, "string">>,
   <<<<"P","r","o","d","u","c","t"," ","A","r","c","h","i","t","e","c","t","u","r","e">>, "string">>,
   <<<<"P","e","r","s","i","s","t","e","n","c","e"," ","M","o","d","e">>, "string">>,
   <<<<"A","d","d","r","e","s","s","i","n","g"," ","M","o","d","e">>, "string">>,
   <<<<"G","P","U"," ","R","e","s","e","t"," ","S","t","a","t","u","s">>, "SMIGPUResetStatus">>,
   <<<<"C","l","o","c","k","s"," ","E","v","e","n","t"," ","R","e","a","s","o","n","s">>, "SMIClockEventReasons">>,
   <<<<"E","C","C"," ","E","r","r","o","r","s">>, "SMIECCErrors">>,
   <<<<"T","e","m","p","e","r","a","t","u","r","e">>, "SMIGPUTemperature">>,
   <<<<"G","P","U"," ","P","o","w","e","r"," ","R","e","a","d","i","n","g","s">>, "SMIGPUPowerReadings">>,
   <<<<"P","r","o","c","e","s","s","e","s">>, "SMIProcesses">>,
   <<<<"F","B"," ","M","e","m","o","r","y"," ","U","s","a","g","e">>, "SMIFBMemoryUsage">>,
   <<<<"F","a","n"," ","S","p","e","e","d">>, "string">>}

\* the json tags of SMIGPUResetStatus and the kinds of their fields
Fields_SMIGPUResetStatus ==
  {<<<<"R","e","s","e","t"," ","R","e","q","u","i","r","e","d">>, "string">>,
   <<<<"D","r","a","i","n"," ","a","n","d"," ","R","e","s","e","t"," ","R","e","c","o","m","m","e","n","d","e","d">>, "string">>}

\* the json tags of SMIClockEventReasons and the kinds of their fields
Fields_SMIClockEventReasons ==
  {<<<<"S","W"," ","P","o","w","e","r"," ","C","a","p">>, "string">>,
   <<<<"S","W"," ","T","h","e","r","m","a","l"," ","S","l","o","w","d","o","w","n">>, "string">>,
   <<<<"H","W"," ","S","l","o","w","d","o","w","n">>, "string">>,
   <<<<"H","W"," ","T","h","e","r","m","a","l"," ","S","l","o","w","d","o","w","n">>, "string">>,
   <<<<"H","W"," ","P","o","w","e","r"," ","B","r","a","k","e"," ","S","l","o","w","d","o","w","n">>, "string">>}

\* the json tags of SMIECCErrors and the kinds of their fields
Fields_SMIECCErrors ==
  {<<<<"i","d">>, "string">>,
   <<<<"A","g","g","r","e","g","a","t","e">>, "SMIECCErrorAggregate">>,
   <<<<"A","g","g","r","e","g","a","t","e"," ","U","n","c","o","r","r","e","c","t","a","b","l","e"," ","S","R","A","M"," ","S","o","u","r","c","e","s">>, "SMIECCErrorAggregateUncorrectableSRAMSources">>,
   <<<<"V","o","l","a","t","i","l","e">>, "SMIECCErrorVolatile">>}

\* the json tags of SMIECCErrorAggregate and the kinds of their fields
Fields_SMIECCErrorAggregate ==
  {<<<<"D","R","A","M"," ","C","o","r","r","e","c","t","a","b","l","e">>, "string">>,
   <<<<"D","R","A","M"," ","U","n","c","o","r","r","e","c","t","a","b","l","e">>, "string">>,
   <<<<"S","R","A","M"," ","C","o","r","r","e","c","t","a","b","l","e">>, "string">>,
   <<<<"S","R","A","M"," ","T","h","r","e","s","h","o","l","d"," ","E","x","c","e","e","d","e","d">>, "string">>,
   <<<<"S","R","A","M"," ","U","n","c","o","r","r","e","c","t","a","b","l","e">>, "string">>,
   <<<<"S","R","A","M"," ","U","n","c","o","r","r","e","c","t","a","b","l","e"," ","P","a","r","i","t","y">>, "string">>,
   <<<<"S","R","A","M"," ","U","n","c","o","r","r","e","c","t","a","b","l","e"," ","S","E","C","-","D","E","D">>, "string">>}

\* the json tags of SMIECCErrorAggregateUncorrectableSRAMSources and the kinds of their fields
Fields_SMIECCErrorAggregateUncorrectableSRAMSources ==
  {<<<<"S","R","A","M"," ","L","2">>, "string">>,
   <<<<"S","R","A","M"," ","M","i","c","r","o","c","o","n","t","r","o","l","l","e","r">>, "string">>,
   <<<<"S","R","A","M"," ","O","t","h","e","r">>, "string">>,
   <<<<"S","R","A","M"," ","P","C","I","E">>, "string">>,
   <<<<"S","R","A","M"," ","S","M">>, "string">>}

\* the json tags of SMIECCErrorVolatile and the kinds of their fields
Fields_SMIECCErrorVolatile ==
  {<<<<"D","R","A","M"," ","C","o","r","r","e","c","t","a","b","l","e">>, "string">>,
   <<<<"D","R","A","M"," ","U","n","c","o","r","r","e","c","t","a","b","l","e">>, "string">>,
   <<<<"S","R","A","M"," ","C","o","r","r","e","c","t","a","b","l","e">>, "string">>,
   <<<<"S","R","A","M"," ","U","n","c","o","r","r","e","c","t","a","b","l","e">>, "string">>,
   <<<<"S","R","A","M"," ","U","n","c","o","r","r","e","c","t","a","b","l","e"," ","P","a","r","i","t","y">>, "string">>,
   <<<<"S","R","A","M"," ","U","n","c","o","r","r","e","c","t","a","b","l","e"," ","S","E","C","-","D","E","D">>, "string">>}

\* the json tags of SMIGPUTemperature and the kinds of their fields
Fields_SMIGPUTemperature ==
  {<<<<"i","d">>, "string">>,
   <<<<"G","P","U"," ","C","u","r","r","e","n","t"," ","T","e","m","p">>, "string">>,
   <<<<"G","P","U"," ","T",".","L","i","m","i","t"," ","T","e","m","p">>, "string">>,
   <<<<"G","P","U"," ","S","h","u","t","d","o","w","n"," ","T","e","m","p">>, "string">>,
   <<<<"G","P","U"," ","S","h","u","t","d","o","w","n"," ","T",".","L","i","m","i","t"," ","T","e","m","p">>, "string">>,
   <<<<"G","P","U"," ","S","l","o","w","d","o","w","n"," ","T","e","m","p">>, "string">>,
   <<<<"G","P","U"," ","S","l","o","w","d","o","w","n"," ","T",".","L","i","m","i","t"," ","T","e","m","p">>, "string">>,
   <<<<"G","P","U"," ","M","a","x"," ","O","p","e","r","a","t","i","n","g"," ","T",".","L","i","m","i","t"," ","T","e","m","p">>, "string">>,
   <<<<"G","P","U"," ","T","a","r","g","e","t"," ","T","e","m","p","e","r","a","t","u","r","e">>, "string">>,
   <<<<"M","e","m","o","r","y"," ","C","u","r","r","e","n","t"," ","T","e","m","p">>, "string">>,
   <<<<"M","e","m","o","r","y"," ","M","a","x"," ","O","p","e","r","a","t","i","n","g"," ","T",".","L","i","m","i","t"," ","T","e","m","p">>, "string">>}

\* the json tags of SMIGPUPowerReadings and the kinds of their fields
Fields_SMIGPUPowerReadings ==
  {<<<<"i","d">>, "string">>,
   <<<<"P","o","w","e","r"," ","D","r","a","w">>, "string">>,
   <<<<"C","u","r","r","e","n","t"," ","P","o","w","e","r"," ","L","i","m","i","t">>, "string">>,
   <<<<"R","e","q","u","e","s","t","e","d"," ","P","o","w","e","r"," ","L","i","m","i","t">>, "string">>,
   <<<<"D","e","f","a","u","l","t"," ","P","o","w","e","r"," ","L","i","m","i","t">>, "string">>,
   <<<<"M","i","n"," ","P","o","w","e","r"," ","L","i","m","i","t">>, "string">>,
   <<<<"M","a","x"," ","P","o","w","e","r"," ","L","i","m","i","t">>, "string">>}

\* the json tags of SMIProcesses and the kinds of their fields
Fields_SMIProcesses ==
  {<<<<"G","P","U"," ","i","n","s","t","a","n","c","e"," ","I","D">>, "string">>,
   <<<<"C","o","m","p","u","t","e"," ","i","n","s","t","a","n","c","e"," ","I","D">>, "string">>,
   <<<<"P","r","o","c","e","s","s"," ","I","D">>, "int">>,
   <<<<"P","r","o","c","e","s","s"," ","T","y","p","e">>, "string">>,
   <<<<"P","r","o","c","e","s","s"," ","N","a","m","e">>, "string">>,
   <<<<"P","r","o","c","e","s","s"," ","U","s","e","d"," ","G","P","U"," ","M","e","m","o","r","y">>, "string">>}

\* the json tags of SMIFBMemoryUsage and the kinds of their fields
Fields_SMIFBMemoryUsage ==
  {<<<<"i","d">>, "string">>,
   <<<<"T","o","t","a","l">>, "string">>,
   <<<<"R","e","s","e","r","v","e","d">>, "string">>,
   <<<<"U","s","e","d">>, "string">>,
   <<<<"F","r","e","e">>, "string">>}

StructFields(name) ==
  CASE name = "rawSMIQueryOutput" -> Fields_rawSMIQueryOutput
    [] name = "smiQueryOutputFallback" -> Fields_smiQueryOutputFallback
    [] name = "NvidiaSMIGPU" -> Fields_NvidiaSMIGPU
    [] name = "SMIGPUResetStatus" -> Fields_SMIGPUResetStatus
    [] name = "SMIClockEventReasons" -> Fields_SMIClockEventReasons
    [] name = "SMIECCErrors" -> Fields_SMIECCErrors
    [] name = "SMIECCErrorAggregate" -> Fields_SMIECCErrorAggregate
    [] name = "SMIECCErrorAggregateUncorrectableSRAMSources" -> Fields_SMIECCErrorAggregateUncorrectableSRAMSources
    [] name = "SMIECCErrorVolatile" -> Fields_SMIECCErrorVolatile
    [] name = "SMIGPUTemperature" -> Fields_SMIGPUTemperature
    [] name = "SMIGPUPowerReadings" -> Fields_SMIGPUPowerReadings
    [] name = "SMIProcesses" -> Fields_SMIProcesses
    [] name = "SMIFBMemoryUsage" -> Fields_SMIFBMemoryUsage
    [] OTHER -> {}

\* ---- yaml.Unmarshal, for the block mappings the rewrite pass emits: one
\* "key: value" or "key:" entry per line, nesting by indentation. The text is
\* first read as YAML (a syntax error fails the call), then decoded into the
\* target struct by its json tags (a value of the wrong kind fails the call,
\* an unknown key is skipped with all that is below it).

\* the positions of the ':' of content that end a key: followed by a space or
\* by the end of the line
KeyEnds(content) ==
  {i \in 1..Len(content) :
     content[i] = ":" /\ (i = Len(content) \/ content[i + 1] = " ")}

\* one line of the text as a YAML entry; ok is FALSE when the line is not a
\* "key: scalar" entry
YAMLEntry(line) ==
  LET content == TrimSpace(line)
      ends == KeyEnds(content)
      i == IF ends = {} THEN 0 ELSE Min(ends)
      value == IF ends = {} THEN <<>>
               ELSE TrimSpace(SubSeq(content, i + 1, Len(content)))
  IN [indent |-> Len(line) - Len(TrimLeft(line)),
      key |-> IF ends = {} THEN <<>> ELSE TrimSpace(SubSeq(content, 1, i - 1)),
      value |-> value,
      ok |-> ends # {} /\ KeyEnds(value) = {}]

YAMLEntries(text) ==
  IF Len(text) = 0 THEN <<>>
  ELSE LET lines == BytesSplit(text, <<"\n">>)
       IN [k \in 1..Len(lines) |-> YAMLEntry(lines[k])]

\* the scalars YAML reads as null
IsNull(value) == value \in {<<>>, <<"n","u","l","l">>, <<"N","u","l","l">>, <<"N","U","L","L">>, <<"~">>}

\* the scalars YAML reads as a decimal integer
IsInt(value) ==
  /\ Len(value) > 0
  /\ \A i \in 1..Len(value) : \E d \in 1..10 : DecimalDigits[d] = value[i]
  /\ (Len(value) = 1 \/ value[1] # "0")

DigitValue(c) == (CHOOSE d \in 1..10 : DecimalDigits[d] = c) - 1

RECURSIVE ParseInt(_)
ParseInt(value) ==
  IF Len(value) = 0 THEN 0
  ELSE 10 * ParseInt(SubSeq(value, 1, Len(value) - 1)) + DigitValue(value[Len(value)])

\* the string a scalar decodes to in a string field: an integer is read as a
\* number and printed again
ScalarString(value) ==
  IF IsNull(value) THEN <<>>
  ELSE IF IsInt(value) THEN FormatInt(ParseInt(value))
  ELSE value

\* the nesting of the entries e[1..n]: parent[k] is the entry e[k] is a child
\* of (0 at the top level), open is the chain of entries that can still get
\* children, bad the first line that breaks the block structure (0: none)
RECURSIVE YAMLNesting(_, _)
YAMLNesting(e, n) ==
  IF n = 0 THEN [parent |-> <<>>, open |-> <<>>, bad |-> 0]
  ELSE
    LET p == YAMLNesting(e, n - 1)
        d == e[n].indent
        \* the open entries that are not deeper than this line
        keep == SelectSeq(p.open, LAMBDA j : e[j].indent <= d)
        top == IF Len(keep) = 0 THEN 0 ELSE keep[Len(keep)]
        fail == [parent |-> Append(p.parent, 0), open |-> p.open, bad |-> n]
    IN IF p.bad # 0 THEN [p EXCEPT !.parent = Append(p.parent, 0)]
       ELSE IF ~e[n].ok THEN fail
       ELSE IF n = 1 THEN [parent |-> <<0>>, open |-> <<1>>, bad |-> 0]
       ELSE IF top = 0 THEN fail
       ELSE IF e[top].indent = d
       THEN [parent |-> Append(p.parent, p.parent[top]),
             open |-> Append(SubSeq(keep, 1, Len(keep) - 1), n), bad |-> 0]
       ELSE IF top = n - 1 /\ e[top].value = <<>>
       THEN [parent |-> Append(p.parent, top), open |-> Append(keep, n), bad |-> 0]
       ELSE fail

\* the kind of the field an entry decodes into: "string", "int", the name of
\* a struct, or "" for a key the target does not have
RECURSIVE FieldKind(_, _, _, _)
FieldKind(e, parent, k, target) ==
  LET struct == IF parent[k] = 0 THEN target
                ELSE FieldKind(e, parent, parent[k], target)
      kinds == {f[2] : f \in {g \in StructFields(struct) : g[1] = e[k].key}}
  IN IF kinds = {} THEN "" ELSE CHOOSE x \in kinds : TRUE

HasChildren(parent, k) == \E j \in 1..Len(parent) : parent[j] = k

\* a key set twice in one mapping keeps its last value: the entry is the one
\* that counts for its key, and so is every entry above it
RECURSIVE Effective(_, _, _)
Effective(e, parent, k) ==
  /\ \A j \in (k + 1)..Len(e) : ~(parent[j] = parent[k] /\ e[j].key = e[k].key)
  /\ (parent[k] = 0 \/ Effective(e, parent, parent[k]))

\* the entry does not fit the field it decodes into
KindMismatch(e, parent, k, target) ==
  LET kind == FieldKind(e, parent, k, target)
  IN CASE ~Effective(e, parent, k) -> FALSE
       [] kind = "" -> FALSE
       [] kind = "string" -> HasChildren(parent, k)
       [] kind = "int" -> \/ HasChildren(parent, k)
                          \/ ~IsNull(e[k].value) /\ ~IsInt(e[k].value)
       [] OTHER -> ~HasChildren(parent, k) /\ ~IsNull(e[k].value)

NoError == [kind |-> "", line |-> 0, into |-> ""]

\* yaml.Unmarshal(text, &target{}): the error, and the decoded entries
Unmarshal(text, target) ==
  LET e == YAMLEntries(text)
      nest == YAMLNesting(e, Len(e))
      wrong == {k \in 1..Len(e) : KindMismatch(e, nest.parent, k, target)}
  IN [err |-> IF nest.bad # 0
              THEN [kind |-> "yaml", line |-> nest.bad, into |-> ""]
              ELSE IF wrong # {}
              THEN [kind |-> "json", line |-> Min(wrong), into |-> target]
              ELSE NoError,
      entries |-> e,
      parent |-> nest.parent,
      target |-> target]

\* the entries of a decoded value that set the field key of the struct the
\* entry at is decoded into (at = 0: the target itself)
FieldEntries(dec, at, key) ==
  {k \in 1..Len(dec.entries) : dec.parent[k] = at /\ dec.entries[k].key = key}

Max(S) == CHOOSE x \in S : \A y \in S : y <= x

\* a string field: the zero value when the text does not set it, the last
\* entry when it sets it more than once
StringField(dec, at, key) ==
  LET ks == FieldEntries(dec, at, key)
  IN IF ks = {} THEN <<>> ELSE ScalarString(dec.entries[Max(ks)].value)

IntField(dec, at, key) ==
  LET ks == FieldEntries(dec, at, key)
  IN IF ks = {} \/ IsNull(dec.entries[Max(ks)].value) THEN 0
     ELSE ParseInt(dec.entries[Max(ks)].value)

\* a pointer-to-struct field: 0 when nil, else the entry that holds the struct
StructField(dec, at, key) ==
  LET ks == FieldEntries(dec, at, key)
  IN IF ks = {} \/ ~HasChildren(dec.parent, Max(ks)) THEN 0 ELSE Max(ks)

\* ---- the Document
HeaderKeys == <<<<"T","i","m","e","s","t","a","m","p">>, <<"D","r","i","v","e","r"," ","V","e","r","s","i","o","n">>, <<"C","U","D","A"," ","V","e","r","s","i","o","n">>, <<"A","t","t","a","c","h","e","d"," ","G","P","U","s">>>>

GPUSlots == 0..7

\* mutant of SubRecord: the identifier is not copied into the sub-record
SubRecordNoID(dec, g, key, id) ==
  [present |-> StructField(dec, g, key) # 0, ID |-> <<>>]

\* a sub-record of a device that carries the device's identifier
SubRecord(dec, g, key, id) ==
  [present |-> StructField(dec, g, key) # 0,
   ID |-> IF StructField(dec, g, key) # 0 THEN id ELSE <<>>]

\* the device decoded from the entry g, after the identifier has been copied
\* into its sub-records
DecodedGPU(dec, g) ==
  LET id == StringField(dec, g, <<"I","D">>)
  IN [ID |-> id,
      ECCErrors |-> SubRecord(dec, g, <<"E","C","C"," ","E","r","r","o","r","s">>, id),
      Temperature |-> SubRecord(dec, g, <<"T","e","m","p","e","r","a","t","u","r","e">>, id),
      GPUPowerReadings |-> SubRecord(dec, g, <<"G","P","U"," ","P","o","w","e","r"," ","R","e","a","d","i","n","g","s">>, id),
      FBMemoryUsage |-> SubRecord(dec, g, <<"F","B"," ","M","e","m","o","r","y"," ","U","s","a","g","e">>, id)]

\* raw.GPU0 .. raw.GPU7: the entry of the slot, 0 when the pointer is nil
GPUField(dec, slot) == StructField(dec, 0, <<"G","P","U">> \o FormatInt(slot))

\* the devices of the populated slots, in the order of the slots
RECURSIVE FlattenGPUs(_, _)
FlattenGPUs(dec, n) ==
  IF n = 0 THEN <<>>
  ELSE FlattenGPUs(dec, n - 1) \o
       (IF GPUField(dec, n - 1) # 0 THEN <<DecodedGPU(dec, GPUField(dec, n - 1))>>
        ELSE <<>>)

NilDocument ==
  [isNil |-> TRUE, Timestamp |-> <<>>, DriverVersion |-> <<>>,
   CUDAVersion |-> <<>>, AttachedGPUs |-> 0, GPUs |-> <<>>, Raw |-> <<>>]

\* the SMIOutput built from the header fields of a decoded value
HeaderDocument(dec) ==
  [isNil |-> FALSE,
   Timestamp |-> StringField(dec, 0, HeaderKeys[1]),
   DriverVersion |-> StringField(dec, 0, HeaderKeys[2]),
   CUDAVersion |-> StringField(dec, 0, HeaderKeys[3]),
   AttachedGPUs |-> IntField(dec, 0, HeaderKeys[4]),
   GPUs |-> <<>>, Raw |-> <<>>]

\* mutant of FallbackText: the whole rewritten text is decoded again
FallbackTextWhole(processedOutput) == processedOutput

\* the text the fallback decodes
FallbackText(processedOutput) == SplitFirst(processedOutput, <<"\n", "G", "P", "U">>)

\* ParseSMIQueryOutput(b): the Document and the error it returns
ParseSMIQueryOutput(b) ==
  LET processedOutput == ProcessedOutput(b)
      raw == Unmarshal(processedOutput, "rawSMIQueryOutput")
      fallback == Unmarshal(FallbackText(processedOutput), "smiQueryOutputFallback")
  IN IF raw.err # NoError
     THEN IF fallback.err # NoError
          THEN [doc |-> NilDocument, err |-> fallback.err]
          ELSE [doc |-> HeaderDocument(fallback), err |-> raw.err]
     ELSE [doc |-> [HeaderDocument(raw) EXCEPT !.GPUs = FlattenGPUs(raw, 8), !.Raw = b],
           err |-> NoError]

\* ---- the documents the decoder is given
BannerLines == <<<<>>, <<"=","=","=","=","=","=","=","=","=","=","=","=","=","=","N","V","S","M","I"," ","L","O","G","=","=","=","=","=","=","=","=","=","=","=","=","=","=">>, <<>>>>

TimestampValue == <<"M","o","n"," ","J","a","n"," ","1">>
DriverVersionValue == <<"5","3","5",".","5","4",".","0","3">>
CUDAVersionValue == <<"1","2",".","2">>

\* the header lines of a document: the timestamp line, the two version lines
\* and the device count line are each there or not, and the count is a number
\* or not
HeaderChoices ==
  [banner : BOOLEAN, timestamp : BOOLEAN, versions : BOOLEAN,
   attached : {"none", "1", "x"}]

HeaderLines(h) ==
  (IF h.banner THEN BannerLines ELSE <<>>)
  \o (IF h.timestamp THEN <<<<"T","i","m","e","s","t","a","m","p"," ",":"," ">> \o TimestampValue>> ELSE <<>>)
  \o (IF h.versions
      THEN <<<<"D","r","i","v","e","r"," ","V","e","r","s","i","o","n"," "," ",":"," ">> \o DriverVersionValue,
             <<"C","U","D","A"," ","V","e","r","s","i","o","n"," "," "," "," ",":"," ">> \o CUDAVersionValue>>
      ELSE <<>>)
  \o (CASE h.attached = "none" -> <<>>
        [] h.attached = "1" -> <<<<"A","t","t","a","c","h","e","d"," ","G","P","U","s"," ",":"," ","1">>>>
        [] h.attached = "x" -> <<<<"A","t","t","a","c","h","e","d"," ","G","P","U","s"," ",":"," ","x">>>>)

\* the lines the rest of a document is made of: a device line, well-formed
\* device fields, a field of the wrong kind, a child of a field that has a
\* value
BodyLines ==
  <<<<"G","P","U"," ","0","0","0","0","0","0","0","0",":","0","1",":","0","0",".","0">>,
    <<" "," "," "," ","P","r","o","d","u","c","t"," ","N","a","m","e"," ",":"," ","H","1","0","0">>,
    <<" "," "," "," ","T","e","m","p","e","r","a","t","u","r","e">>,
    <<" "," "," "," "," "," "," "," ","G","P","U"," ","C","u","r","r","e","n","t"," ","T","e","m","p"," ",":"," ","5","0"," ","C">>,
    <<" "," "," "," ","T","e","m","p","e","r","a","t","u","r","e"," ",":"," ","5","0"," ","C">>,
    <<" "," "," "," ","P","r","o","c","e","s","s","e","s"," ",":"," ","N","o","n","e">>,
    <<" "," "," "," "," "," "," "," ","H","W"," ","S","l","o","w","d","o","w","n"," ",":"," ","N","o","t"," ","A","c","t","i","v","e">>,
    <<" "," "," "," "," "," "," "," "," "," "," "," ","H","W"," ","T","h","e","r","m","a","l"," ","S","l","o","w","d","o","w","n"," ",":"," ","N","o","t"," ","A","c","t","i","v","e">>,
    <<" "," "," "," "," "," "," "," ","E","x","t","r","a"," ",":"," ","1">>>>

\* lines of a document after its header
MaxSMILines == 3

SMIBodies == UNION {[1..n -> 1..Len(BodyLines)] : n \in 0..MaxSMILines}

SMIDocument(h, body) ==
  BytesJoin(HeaderLines(h) \o [k \in DOMAIN body |-> BodyLines[body[k]]], <<"\n">>)

InitParse ==
  /\ MonitorIdle
  /\ \E h \in HeaderChoices, body \in SMIBodies :
       fn = [op |-> "ParseSMIQueryOutput", done |-> FALSE,
             header |-> h, arg |-> SMIDocument(h, body)]

CallParseSMIQueryOutput ==
  /\ fn.op = "ParseSMIQueryOutput"
  /\ ~fn.done
  /\ fn' = [op |-> fn.op, done |-> TRUE, header |-> fn.header, arg |-> fn.arg,
            res |-> ParseSMIQueryOutput(fn.arg)]
  /\ UNCHANGED monitorVars

SpecParse == InitParse /\ [][CallParseSMIQueryOutput]_vars

\* the lines of the rewritten text, and those of them, the first aside, that
\* open with the device-block marker
RewrittenLines(b) ==
  IF Len(ProcessedOutput(b)) = 0 THEN <<>>
  ELSE BytesSplit(ProcessedOutput(b), <<"\n">>)

MarkerLines(lines) == {k \in 2..Len(lines) : HasPrefix(lines[k], <<"G","P","U">>)}

\* the rewritten text before the first device-block marker
TextBeforeMarker(b) ==
  LET lines == RewrittenLines(b)
  IN IF MarkerLines(lines) = {} THEN BytesJoin(lines, <<"\n">>)
     ELSE BytesJoin(SubSeq(lines, 1, Min(MarkerLines(lines)) - 1), <<"\n">>)

\* C9: when the full decode of the rewritten text fails but the text before
\* the first device-block marker decodes as the header schema, the decoder
\* returns a non-nil Document with the four header fields of the input (the
\* zero value for a header line the input does not have), no device and
\* nothing else, together with the error of the full decode; the Document is
\* nil exactly when the header decode fails too.
C9_DecoderFallback ==
  (fn.op = "ParseSMIQueryOutput" /\ fn.done) =>
    LET full == Unmarshal(ProcessedOutput(fn.arg), "rawSMIQueryOutput")
        head == Unmarshal(TextBeforeMarker(fn.arg), "smiQueryOutputFallback")
        doc == fn.res.doc
        h == fn.header
    IN full.err # NoError =>
         /\ head.err = NoError =>
              /\ ~doc.isNil
              /\ doc.Timestamp = (IF h.timestamp THEN TimestampValue ELSE <<>>)
              /\ doc.DriverVersion = (IF h.versions THEN DriverVersionValue ELSE <<>>)
              /\ doc.CUDAVersion = (IF h.versions THEN CUDAVersionValue ELSE <<>>)
              /\ doc.AttachedGPUs = (IF h.attached = "1" THEN 1 ELSE 0)
              /\ doc.GPUs = <<>>
              /\ doc.Raw = <<>>
              /\ fn.res.err = full.err
         /\ doc.isNil <=> head.err # NoError
         /\ fn.res.err # NoError

\* the decoder has returned the salvaged header of a document whose header
\* lines are all there and whose device block does not decode
C9_Witness ==
  /\ fn.op = "ParseSMIQueryOutput"
  /\ fn.done
  /\ fn.header.timestamp /\ fn.header.versions /\ fn.header.attached = "1"
  /\ MarkerLines(RewrittenLines(fn.arg)) # {}
  /\ fn.res.err # NoError
  /\ ~fn.res.doc.isNil
  /\ fn.res.doc.CUDAVersion = CUDAVersionValue
  /\ fn.res.doc.AttachedGPUs = 1

\* ------------------------------------------------------------------ FindErrs
UnknownError == <<"U","n","k","n","o","w","n"," ","E","r","r","o","r">>

\* the temperature fields FindErrs looks at, in the order it looks at them,
\* with the name each gets in the reported string
ScannedTemperatureFields ==
  <<"Current", "Limit", "ShutdownLimit", "SlowdownLimit", "MaxOperatingLimit",
    "Target", "MemoryCurrent", "MemoryMaxOperatingLimit">>

ErrTemperature(id, field) == <<id, "Temperature." \o field \o " Unknown Error">>
ErrFanSpeed(id) == <<id, "FanSpeed Unknown Error">>
ErrAddressingMode(id, value) == <<id, "AddressingMode", value>>

\* strings.Contains(value, "Unknown Error")
HasUnknownError(value) == BytesContains(value, UnknownError)

\* the temperature block of FindErrs over the first n scanned fields
RECURSIVE FindTemperatureErrs(_, _)
FindTemperatureErrs(g, n) ==
  IF n = 0 THEN MakeSlice
  ELSE LET errs == FindTemperatureErrs(g, n - 1)
           field == ScannedTemperatureFields[n]
       IN IF HasUnknownError(g.Temperature[field])
          THEN AppendTo(errs, ErrTemperature(g.ID, field)) ELSE errs

\* NvidiaSMIGPU.FindAddressingModeErr: the error, [isNil |-> TRUE] for none
FindAddressingModeErr(g) ==
  IF HasUnknownError(g.AddressingMode)
  THEN [isNil |-> FALSE, msg |-> ErrAddressingMode(g.ID, g.AddressingMode)]
  ELSE [isNil |-> TRUE, msg |-> <<>>]

\* mutant of FindErrsResult: the list is returned as it is
FindErrsResultAsIs(errs) == errs

\* the last statement of FindErrs
FindErrsResult(errs) == NilIfEmpty(errs)

\* NvidiaSMIGPU.FindErrs
FindErrs(g) ==
  LET e0 == IF g.Temperature.present
            THEN FindTemperatureErrs(g, Len(ScannedTemperatureFields))
            ELSE MakeSlice
      aerr == FindAddressingModeErr(g)
      e1 == IF ~aerr.isNil THEN AppendTo(e0, aerr.msg) ELSE e0
      e2 == IF HasUnknownError(g.FanSpeed) THEN AppendTo(e1, ErrFanSpeed(g.ID)) ELSE e1
  IN FindErrsResult(e2)

\* the values a scanned field takes in the model: a reading, the marker, the
\* marker inside a longer text
ScanValues == {<<"4","5"," ","C">>, UnknownError, <<"G","P","U"," ","U","n","k","n","o","w","n"," ","E","r","r","o","r","!">>}

\* the temperature records of the model: absent, or every scanned field a
\* reading or the marker, and the two fields that are not scanned (Shutdown,
\* Slowdown) a reading or the marker
NoTemperature ==
  [present |-> FALSE, Current |-> <<>>, Limit |-> <<>>, Shutdown |-> <<>>,
   ShutdownLimit |-> <<>>, Slowdown |-> <<>>, SlowdownLimit |-> <<>>,
   MaxOperatingLimit |-> <<>>, Target |-> <<>>, MemoryCurrent |-> <<>>,
   MemoryMaxOperatingLimit |-> <<>>]

ScanTemperatures ==
  {NoTemperature} \cup
  [present : {TRUE}, Current : {<<"4","5"," ","C">>, UnknownError},
   Limit : {<<"N","/","A">>, UnknownError},
   Shutdown : {<<"9","5"," ","C">>, UnknownError},
   ShutdownLimit : {<<"N","/","A">>, UnknownError},
   Slowdown : {<<"9","0"," ","C">>},
   SlowdownLimit : {<<"N","/","A">>, UnknownError},
   MaxOperatingLimit : {<<"N","/","A">>, UnknownError},
   Target : {<<"N","/","A">>, UnknownError},
   MemoryCurrent : {<<"4","0"," ","C">>, UnknownError},
   MemoryMaxOperatingLimit : {<<"N","/","A">>, <<"G","P","U"," ","U","n","k","n","o","w","n"," ","E","r","r","o","r","!">>}]

\* the devices FindErrs is given
ScanGPUs ==
  [ID : {"GPU-0"}, Temperature : ScanTemperatures,
   AddressingMode : {<<>>} \cup ScanValues, FanSpeed : ScanValues]

InitFindErrs ==
  /\ MonitorIdle
  /\ \E g \in ScanGPUs : fn = [op |-> "FindErrs", done |-> FALSE, arg |-> g]

CallFindErrs ==
  /\ fn.op = "FindErrs"
  /\ ~fn.done
  /\ fn' = [op |-> fn.op, done |-> TRUE, arg |-> fn.arg, res |-> FindErrs(fn.arg)]
  /\ UNCHANGED monitorVars

SpecFindErrs == InitFindErrs /\ [][CallFindErrs]_vars

\* the scanned fields of a device that contain the marker
OffendingFields(g) ==
  {f \in Range(ScannedTemperatureFields) :
     g.Temperature.present /\ BytesContains(g.Temperature[f], <<"U","n","k","n","o","w","n"," ","E","r","r","o","r">>)}
  \cup {f \in {"AddressingMode", "FanSpeed"} : BytesContains(g[f], <<"U","n","k","n","o","w","n"," ","E","r","r","o","r">>)}

\* the entry of the result that reports field f
ReportsField(entry, f) ==
  CASE f = "AddressingMode" -> Len(entry) = 3 /\ entry[2] = "AddressingMode"
    [] f = "FanSpeed" -> Len(entry) = 2 /\ entry[2] = "FanSpeed Unknown Error"
    [] OTHER -> Len(entry) = 2 /\ entry[2] = "Temperature." \o f \o " Unknown Error"

\* C11: FindErrs returns nil, not an empty list, when no scanned field of the
\* device (eight temperature fields, fan speed, addressing mode) contains
\* "Unknown Error"; otherwise its result is not nil and holds exactly one
\* string for each offending field and no other string.
C11_FindErrsNilOrOnePerField ==
  (fn.op = "FindErrs" /\ fn.done) =>
    LET off == OffendingFields(fn.arg)
        r == fn.res
    IN /\ off = {} => (r.isNil /\ r.elems = <<>>)
       /\ off # {} =>
            /\ ~r.isNil
            /\ Len(r.elems) = Cardinality(off)
            /\ \A f \in off :
                 Cardinality({k \in DOMAIN r.elems : ReportsField(r.elems[k], f)}) = 1

\* FindErrs has returned nil for a device whose only "Unknown Error" is in a
\* field it does not scan
C11_Witness ==
  /\ fn.op = "FindErrs"
  /\ fn.done
  /\ fn.arg.Temperature.present
  /\ fn.arg.Temperature.Shutdown = UnknownError
  /\ OffendingFields(fn.arg) = {}
  /\ fn.res.isNil

\* ------------------------------------------------------------ FindSummaryErr
ErrMarker == <<"E","R","R","!">>

\* mutant of SummaryEntry: the matching line is reported without the line before
SummaryEntryAlone(lines, n) == lines[n]

\* the entry of the matching line n: with the line before it when it has one
SummaryEntry(lines, n) ==
  IF n > 1 THEN lines[n - 1] \o <<"\n">> \o lines[n] ELSE lines[n]

\* the loop of FindSummaryErr over the first n lines
RECURSIVE SummaryLoop(_, _)
SummaryLoop(lines, n) ==
  IF n = 0 THEN MakeSlice
  ELSE LET errs == SummaryLoop(lines, n - 1)
       IN IF ~BytesContains(lines[n], ErrMarker) THEN errs
          ELSE AppendTo(errs, SummaryEntry(lines, n))

\* FindSummaryErr(s): the list is returned as the loop leaves it
FindSummaryErr(s) ==
  LET lines == BytesSplit(s, <<"\n">>) IN SummaryLoop(lines, Len(lines))

\* the summaries of the model
Summaries ==
  {<<>>,
   <<"|"," ","0"," ","H","1","0","0"," ","|"," ","3","0","C"," ","|">>,
   <<"|"," ","0"," ","H","1","0","0"," ","|","\n","|"," ","E","R","R","!"," ","3","0","C"," ","|">>,
   <<"|"," ","E","R","R","!"," ","|","\n","|"," ","E","R","R","!"," ","3","0","C"," ","|","\n","|"," ","1"," ","H","1","0","0"," ","|">>}

InitFindSummaryErr ==
  /\ MonitorIdle
  /\ \E s \in Summaries : fn = [op |-> "FindSummaryErr", done |-> FALSE, arg |-> s]

CallFindSummaryErr ==
  /\ fn.op = "FindSummaryErr"
  /\ ~fn.done
  /\ fn' = [op |-> fn.op, done |-> TRUE, arg |-> fn.arg,
            res |-> FindSummaryErr(fn.arg)]
  /\ UNCHANGED monitorVars

\* ------------------------------------------------------------- FindGPUErrs
ErrAttachedGPUs(attached, n) == <<"AttachedGPUs", attached, "!= GPUs", n>>

\* the loop of FindGPUErrs over the first n devices
RECURSIVE GPUErrsLoop(_, _)
GPUErrsLoop(gpus, n) ==
  IF n = 0 THEN MakeSlice
  ELSE LET rs == GPUErrsLoop(gpus, n - 1)
           errs == FindErrs(gpus[n])
       IN IF Len(errs.elems) = 0 THEN rs ELSE AppendAll(rs, errs.elems)

\* mutant of SummaryErrs: the summary is scanned also when its acquisition failed
SummaryErrsBoth(o, rs) ==
  AppendAll(IF ~o.SummaryFailure.isNil THEN AppendTo(rs, o.SummaryFailure.msg) ELSE rs,
            FindSummaryErr(o.Summary).elems)

\* the summary's part of FindGPUErrs: the acquisition failure, else the scan
SummaryErrs(o, rs) ==
  IF ~o.SummaryFailure.isNil THEN AppendTo(rs, o.SummaryFailure.msg)
  ELSE AppendAll(rs, FindSummaryErr(o.Summary).elems)

\* SMIOutput.FindGPUErrs; SummaryFailure is nil (isNil) or an error with a
\* message
FindGPUErrs(o) ==
  LET r0 == GPUErrsLoop(o.GPUs, Len(o.GPUs))
      r1 == SummaryErrs(o, r0)
      r2 == IF o.AttachedGPUs # Len(o.GPUs)
            THEN AppendTo(r1, ErrAttachedGPUs(o.AttachedGPUs, Len(o.GPUs)))
            ELSE r1
  IN NilIfEmpty(r2)

\* a device without anomaly and devices with one and with two
CleanGPU ==
  [ID |-> "GPU-0", Temperature |-> NoTemperature, AddressingMode |-> <<>>,
   FanSpeed |-> <<"4","5"," ","C">>]

DocumentGPUs ==
  {CleanGPU,
   [CleanGPU EXCEPT !.ID = "GPU-1", !.FanSpeed = UnknownError],
   [CleanGPU EXCEPT !.ID = "GPU-2", !.AddressingMode = UnknownError,
                    !.Temperature = [NoTemperature EXCEPT !.present = TRUE,
                                                          !.Target = UnknownError]]}

SummaryFailures ==
  {[isNil |-> TRUE, msg |-> <<>>], [isNil |-> FALSE, msg |-> <<"e","x","i","t"," ","s","t","a","t","u","s"," ","2","5","5">>]}

\* the documents FindGPUErrs is given
ScanDocuments ==
  [GPUs : UNION {[1..n -> DocumentGPUs] : n \in 0..MaxGPUs},
   SummaryFailure : SummaryFailures, Summary : Summaries,
   AttachedGPUs : 0..MaxGPUs]

InitFindGPUErrs ==
  /\ MonitorIdle
  /\ \E o \in ScanDocuments : fn = [op |-> "FindGPUErrs", done |-> FALSE, arg |-> o]

CallFindGPUErrs ==
  /\ fn.op = "FindGPUErrs"
  /\ ~fn.done
  /\ fn' = [op |-> fn.op, done |-> TRUE, arg |-> fn.arg, res |-> FindGPUErrs(fn.arg)]
  /\ UNCHANGED monitorVars

\* ---------------------------------------------- FindVolatileUncorrectableErrs
\* an error counter counts when it is neither empty nor "0"
CounterSet(value) == value # "" /\ value # "0"

\* SMIECCErrors.FindVolatileUncorrectableErrs: each entry is the identifier,
\* the name of the counter and the value the code prints with it
FindVolatileUncorrectableErrs(eccErrs) ==
  LET v == eccErrs.Volatile
      e0 == MakeSlice
      e1 == IF v.present /\ CounterSet(v.DRAMUncorrectable)
            THEN AppendTo(e0, <<eccErrs.ID, "Volatile DRAMUncorrectable", v.DRAMUncorrectable>>)
            ELSE e0
      e2 == IF v.present /\ CounterSet(v.SRAMUncorrectable)
            THEN AppendTo(e1, <<eccErrs.ID, "Volatile SRAMUncorrectable", v.SRAMUncorrectable>>)
            ELSE e1
      e3 == IF v.present /\ CounterSet(v.SRAMUncorrectableParity)
            THEN AppendTo(e2, <<eccErrs.ID, "Volatile SRAMUncorrectableParity", v.SRAMUncorrectable>>)
            ELSE e2
      e4 == IF v.present /\ CounterSet(v.SRAMUncorrectableSECDED)
            THEN AppendTo(e3, <<eccErrs.ID, "Volatile SRAMUncorrectableSECDED", v.SRAMUncorrectable>>)
            ELSE e3
  IN NilIfEmpty(e4)

\* the values of an error counter in the model
CounterValues == {"", "0", "1", "2"}

NoVolatile ==
  [present |-> FALSE, DRAMUncorrectable |-> "", SRAMUncorrectable |-> "",
   SRAMUncorrectableParity |-> "", SRAMUncorrectableSECDED |-> ""]

ECCErrorInputs ==
  [ID : {"GPU-0"},
   Volatile : {NoVolatile} \cup
              [present : {TRUE}, DRAMUncorrectable : CounterValues,
               SRAMUncorrectable : CounterValues,
               SRAMUncorrectableParity : CounterValues,
               SRAMUncorrectableSECDED : CounterValues]]

InitFindVolatileUncorrectableErrs ==
  /\ MonitorIdle
  /\ \E e \in ECCErrorInputs :
       fn = [op |-> "FindVolatileUncorrectableErrs", done |-> FALSE, arg |-> e]

CallFindVolatileUncorrectableErrs ==
  /\ fn.op = "FindVolatileUncorrectableErrs"
  /\ ~fn.done
  /\ fn' = [op |-> fn.op, done |-> TRUE, arg |-> fn.arg,
            res |-> FindVolatileUncorrectableErrs(fn.arg)]
  /\ UNCHANGED monitorVars

\* ------------------------------------------------- every scan entry point
InitScans ==
  \/ InitFindErrs
  \/ InitFindGPUErrs
  \/ InitHWSlowdown
  \/ InitFindVolatileUncorrectableErrs
  \/ InitFindSummaryErr

NextScans ==
  \/ CallFindErrs
  \/ CallFindGPUErrs
  \/ CallFindHWSlowdownErrs
  \/ CallFindVolatileUncorrectableErrs
  \/ CallFindSummaryErr

SpecScans == InitScans /\ [][NextScans]_vars

\* the lists a finished scan has returned
ScanResults ==
  IF fn.op = "FindHWSlowdownErrs"
  THEN {fn.res.doc} \cup {fn.res.gpu[i] : i \in DOMAIN fn.res.gpu}
  ELSE {fn.res}

\* C12 (as claimed): every scan entry point (FindErrs, FindGPUErrs, both
\* FindHWSlowdownErrs, FindVolatileUncorrectableErrs, FindSummaryErr) returns
\* nil, not an empty list, when it finds no anomaly.
C12_ScansReturnNil ==
  (fn.op # "none" /\ fn.done) =>
    \A r \in ScanResults : Len(r.elems) = 0 => r.isNil

\* ---- the summary scan and the ECC scan, entry by entry
HasMarker(line) ==
  \E k \in 1..(Len(line) - 3) : SubSeq(line, k, k + 3) = <<"E", "R", "R", "!">>

\* the entries the claim expects of the first n lines
RECURSIVE MarkerEntries(_, _)
MarkerEntries(lines, n) ==
  IF n = 0 THEN <<>>
  ELSE MarkerEntries(lines, n - 1) \o
       (IF ~HasMarker(lines[n]) THEN <<>>
        ELSE IF n = 1 THEN <<lines[1]>>
        ELSE <<lines[n - 1] \o <<"\n">> \o lines[n]>>)

\* C24: the summary scan reports one entry for each line that contains the
\* marker, in line order: the line before it, a line feed and the line, or
\* the line alone when it is the first; other lines give no entry.
C24_SummaryEntries ==
  (fn.op = "FindSummaryErr" /\ fn.done) =>
    LET lines == BytesSplit(fn.arg, <<"\n">>)
    IN fn.res.elems = MarkerEntries(lines, Len(lines))

\* the marker is on the first two lines of three
C24_Witness ==
  /\ fn.op = "FindSummaryErr"
  /\ fn.done
  /\ Len(BytesSplit(fn.arg, <<"\n">>)) = 3
  /\ Len(fn.res.elems) = 2
  /\ fn.res.elems[1] = <<"|"," ","E","R","R","!"," ","|">>
  /\ fn.res.elems[2] = <<"|"," ","E","R","R","!"," ","|","\n","|"," ","E","R","R","!"," ","3","0","C"," ","|">>

CounterNames ==
  <<<<"DRAMUncorrectable", "Volatile DRAMUncorrectable">>,
    <<"SRAMUncorrectable", "Volatile SRAMUncorrectable">>,
    <<"SRAMUncorrectableParity", "Volatile SRAMUncorrectableParity">>,
    <<"SRAMUncorrectableSECDED", "Volatile SRAMUncorrectableSECDED">>>>

\* the entries the claim expects of the first n counters
RECURSIVE CounterEntries(_, _)
CounterEntries(eccErrs, n) ==
  IF n = 0 THEN <<>>
  ELSE CounterEntries(eccErrs, n - 1) \o
       (IF /\ eccErrs.Volatile.present
           /\ eccErrs.Volatile[CounterNames[n][1]] \notin {"", "0"}
        THEN <<<<eccErrs.ID, CounterNames[n][2], eccErrs.Volatile[CounterNames[n][1]]>>>>
        ELSE <<>>)

\* C30 (as claimed): the ECC scan reports one entry for each of the four
\* volatile counters that is present and not "0", and each entry shows the
\* value of the counter it names.
C30_ECCEntries ==
  (fn.op = "FindVolatileUncorrectableErrs" /\ fn.done) =>
    fn.res.elems = CounterEntries(fn.arg, 4)

\* ------------------------------------------- the suffixed-scalar getters
\* a float64 of the model is a number of hundredths: the readings have at most
\* two decimals
IsDigit(c) == \E d \in 1..10 : DecimalDigits[d] = c

\* strconv.ParseFloat(v, 64) for plain decimals (digits with at most one
\* point); decimals after the second are dropped
ParseFloat(v) ==
  LET dots == {i \in 1..Len(v) : v[i] = "."}
      dot == IF dots = {} THEN Len(v) + 1 ELSE Min(dots)
      whole == SubSeq(v, 1, dot - 1)
      frac == SubSeq(v, dot + 1, Len(v))
      frac2 == SubSeq(frac \o <<"0", "0">>, 1, 2)
      ok == /\ Cardinality(dots) <= 1
            /\ \A i \in 1..Len(v) : i \in dots \/ IsDigit(v[i])
            /\ Len(whole) + Len(frac) > 0
  IN [ok |-> ok, val |-> IF ok THEN 100 * ParseInt(whole) + ParseInt(frac2) ELSE 0]

\* fmt.Sprintf("%.2f", x), x >= 0
FormatFloat2(x) ==
  FormatInt(x \div 100) \o <<".">> \o <<DecimalDigits[((x % 100) \div 10) + 1]>>
    \o <<DecimalDigits[(x % 10) + 1]>>

NotAvailable == <<"N","/","A">>

NoErr == [kind |-> "none", label |-> "", shown |-> <<>>]

\* errors.New("N/A")
ErrNotAvailable == [kind |-> "absent", label |-> "N/A", shown |-> <<>>]

\* fmt.Errorf("invalid <label>: %s (expected ...)", shown)
ErrFormat(label, shown) == [kind |-> "format", label |-> label, shown |-> shown]

\* the error strconv.ParseFloat returns
ErrParseFloat(v) == [kind |-> "parse", label |-> "strconv.ParseFloat", shown |-> v]

\* v == "N/A"
IsNotAvailable(v) == v = NotAvailable

\* the body the twelve getters share: v is the field read, suffix the unit,
\* label and shown what the format error is built from
GetSuffixed(v, suffix, label, shown) ==
  IF IsNotAvailable(v) THEN [val |-> 0, err |-> ErrNotAvailable]
  ELSE IF ~HasSuffix(v, suffix) THEN [val |-> 0, err |-> ErrFormat(label, shown)]
  ELSE LET parsed == ParseFloat(SubSeq(v, 1, Len(v) - Len(suffix)))
       IN IF ~parsed.ok
          THEN [val |-> 0, err |-> ErrParseFloat(SubSeq(v, 1, Len(v) - Len(suffix)))]
          ELSE [val |-> parsed.val, err |-> NoErr]

\* SMIGPUTemperature.GetCurrentCelsius .. GetSlowdownLimitCelsius: the field
\* each reads, the words of its format error and the field that error prints
TemperatureGetters ==
  [GetCurrentCelsius |->
     [field |-> "Current", label |-> "GPU current temperature", shown |-> "Current"],
   GetLimitCelsius |->
     [field |-> "Limit", label |-> "GPU t.limit temperature", shown |-> "Limit"],
   GetShutdownCelsius |->
     [field |-> "Shutdown", label |-> "GPU t.shutdown temperature", shown |-> "Limit"],
   GetShutdownLimitCelsius |->
     [field |-> "ShutdownLimit", label |-> "GPU t.shutdown limit temperature",
      shown |-> "Limit"],
   GetSlowdownCelsius |->
     [field |-> "Slowdown", label |-> "GPU t.slowdown temperature", shown |-> "Limit"],
   GetSlowdownLimitCelsius |->
     [field |-> "SlowdownLimit", label |-> "GPU t.slowdown limit temperature",
      shown |-> "Limit"]]

\* SMIGPUPowerReadings.GetPowerDrawW .. GetMaxPowerLimitW
PowerGetters ==
  [GetPowerDrawW |->
     [field |-> "PowerDraw", label |-> "power draw", shown |-> "PowerDraw"],
   GetCurrentPowerLimitW |->
     [field |-> "CurrentPowerLimit", label |-> "current power limit",
      shown |-> "CurrentPowerLimit"],
   GetRequestedPowerLimitW |->
     [field |-> "RequestedPowerLimit", label |-> "current power limit",
      shown |-> "RequestedPowerLimit"],
   GetDefaultPowerLimitW |->
     [field |-> "DefaultPowerLimit", label |-> "current power limit",
      shown |-> "DefaultPowerLimit"],
   GetMinPowerLimitW |->
     [field |-> "MinPowerLimit", label |-> "current power limit",
      shown |-> "MinPowerLimit"],
   GetMaxPowerLimitW |->
     [field |-> "MaxPowerLimit", label |-> "current power limit",
      shown |-> "MaxPowerLimit"]]

GetCelsius(tm, getter) ==
  LET g == TemperatureGetters[getter]
  IN GetSuffixed(tm[g.field], <<" ","C">>, g.label, tm[g.shown])

GetW(pw, getter) ==
  LET g == PowerGetters[getter]
  IN GetSuffixed(pw[g.field], <<" ","W">>, g.label, pw[g.shown])

\* records with every field "N/A"
TemperatureNA ==
  [present |-> TRUE, ID |-> "GPU-0", Current |-> NotAvailable, Limit |-> NotAvailable,
   Shutdown |-> NotAvailable, ShutdownLimit |-> NotAvailable,
   Slowdown |-> NotAvailable, SlowdownLimit |-> NotAvailable,
   MaxOperatingLimit |-> NotAvailable, Target |-> NotAvailable,
   MemoryCurrent |-> NotAvailable, MemoryMaxOperatingLimit |-> NotAvailable]

PowerNA ==
  [present |-> TRUE, ID |-> "GPU-0", PowerDraw |-> NotAvailable, CurrentPowerLimit |-> NotAvailable,
   RequestedPowerLimit |-> NotAvailable, DefaultPowerLimit |-> NotAvailable,
   MinPowerLimit |-> NotAvailable, MaxPowerLimit |-> NotAvailable]

\* the values the field of a getter takes in the model: absent, well-formed,
\* the wrong unit, no unit, not a number, empty
GetterValues(unit, other) ==
  {NotAvailable, <<"9","5">> \o unit, <<"9","5",".","5">> \o unit, <<"9","5">> \o other, <<"9","5">>,
   <<"a","b","c">> \o unit, <<>>}

InitGetters ==
  /\ MonitorIdle
  /\ \/ \E getter \in DOMAIN TemperatureGetters,
           v \in GetterValues(<<" ","C">>, <<" ","F">>), lim \in {NotAvailable, <<"8","0"," ","C">>} :
          fn = [op |-> "GetCelsius", done |-> FALSE, getter |-> getter,
                arg |-> [[TemperatureNA EXCEPT !.Limit = lim]
                           EXCEPT ![TemperatureGetters[getter].field] = v]]
     \/ \E getter \in DOMAIN PowerGetters, v \in GetterValues(<<" ","W">>, <<" ","m","W">>) :
          fn = [op |-> "GetW", done |-> FALSE, getter |-> getter,
                arg |-> [PowerNA EXCEPT ![PowerGetters[getter].field] = v]]

CallGetCelsius ==
  /\ fn.op = "GetCelsius"
  /\ ~fn.done
  /\ fn' = [fn EXCEPT !.done = TRUE] @@ ("res" :> GetCelsius(fn.arg, fn.getter))
  /\ UNCHANGED monitorVars

CallGetW ==
  /\ fn.op = "GetW"
  /\ ~fn.done
  /\ fn' = [fn EXCEPT !.done = TRUE] @@ ("res" :> GetW(fn.arg, fn.getter))
  /\ UNCHANGED monitorVars

SpecGetters == InitGetters /\ [][CallGetCelsius \/ CallGetW]_vars

\* the field a getter is named after and the words that name it
GetterField(getter) ==
  IF getter \in DOMAIN TemperatureGetters THEN TemperatureGetters[getter].field
  ELSE PowerGetters[getter].field

FieldWords ==
  [Current |-> "GPU current temperature", Limit |-> "GPU t.limit temperature",
   Shutdown |-> "GPU t.shutdown temperature",
   ShutdownLimit |-> "GPU t.shutdown limit temperature",
   Slowdown |-> "GPU t.slowdown temperature",
   SlowdownLimit |-> "GPU t.slowdown limit temperature",
   PowerDraw |-> "power draw", CurrentPowerLimit |-> "current power limit",
   RequestedPowerLimit |-> "requested power limit",
   DefaultPowerLimit |-> "default power limit",
   MinPowerLimit |-> "min power limit", MaxPowerLimit |-> "max power limit"]

GetterSuffix == IF fn.op = "GetCelsius" THEN <<" ", "C">> ELSE <<" ", "W">>

\* C14 (as claimed): for each of the six temperature getters and the six power
\* getters, the input "N/A" fails with the absence error, and any other input
\* that does not end in the expected suffix fails with a format error that
\* names the field being parsed and shows that field's value.
C14_GetterErrors ==
  (fn.op \in {"GetCelsius", "GetW"} /\ fn.done) =>
    LET v == fn.arg[GetterField(fn.getter)]
        err == fn.res.err
    IN /\ v = <<"N", "/", "A">> => err.kind = "absent"
       /\ (v # <<"N", "/", "A">> /\ ~HasSuffix(v, GetterSuffix)) =>
            /\ err.kind = "format"
            /\ err.label = FieldWords[GetterField(fn.getter)]
            /\ err.shown = v

\* ------------------------------------------- SMIGPUTemperature.Parse
\* x / y * 100 printed with "%.2f": hundredths of a percent, rounded to nearest
UsedPercentOf(cur, limit) == (cur * 20000 + limit) \div (2 * limit)

\* the shutdown and the slowdown reading: the plain field, else the limit field
FirstThenSecond(tm, first, second) ==
  LET a == GetCelsius(tm, first)
  IN IF a.err.kind = "none" THEN a ELSE GetCelsius(tm, second)

\* mutant of ResolveLimit: the slowdown limit is tried before the shutdown limit
ResolveLimitSlowdownFirst(limit, shutdownLimit, slowdown) ==
  IF limit.err.kind = "none" THEN limit.val
  ELSE LET l1 == IF slowdown.val > 0 THEN slowdown.val ELSE limit.val
       IN IF l1 = 0 /\ shutdownLimit.val > 0 THEN shutdownLimit.val ELSE l1

\* the limit the used percent is computed against
ResolveLimit(limit, shutdownLimit, slowdown) ==
  IF limit.err.kind = "none" THEN limit.val
  ELSE LET l1 == IF shutdownLimit.val > 0 THEN shutdownLimit.val ELSE limit.val
       IN IF l1 = 0 /\ slowdown.val > 0 THEN slowdown.val ELSE l1

ZeroParsedTemperature ==
  [ID |-> "", CurrentHumanized |-> <<>>, CurrentCelsius |-> <<>>,
   LimitHumanized |-> <<>>, LimitCelsius |-> <<>>, UsedPercent |-> <<>>,
   ShutdownHumanized |-> <<>>, ShutdownLimit |-> <<>>, ShutdownCelsius |-> <<>>,
   SlowdownHumanized |-> <<>>, SlowdownLimit |-> <<>>, SlowdownCelsius |-> <<>>,
   MaxOperatingLimit |-> <<>>, Target |-> <<>>, MemoryCurrent |-> <<>>,
   MemoryMaxOperatingLimit |-> <<>>]

TemperatureParse(tm) ==
  LET cur == GetCelsius(tm, "GetCurrentCelsius")
      shutdownLimit == FirstThenSecond(tm, "GetShutdownCelsius", "GetShutdownLimitCelsius")
      slowdown == FirstThenSecond(tm, "GetSlowdownCelsius", "GetSlowdownLimitCelsius")
      limit == GetCelsius(tm, "GetLimitCelsius")
      resolved == ResolveLimit(limit, shutdownLimit, slowdown)
  IN IF cur.err.kind # "none" THEN [temp |-> ZeroParsedTemperature, err |-> cur.err]
     ELSE [temp |->
             [ZeroParsedTemperature EXCEPT
                !.ID = tm.ID,
                !.CurrentHumanized = tm.Current,
                !.CurrentCelsius = FormatFloat2(cur.val),
                !.LimitHumanized = tm.Limit,
                !.LimitCelsius =
                  IF limit.err.kind = "none" THEN FormatFloat2(limit.val) ELSE <<>>,
                !.UsedPercent =
                  IF resolved > 0 THEN FormatFloat2(UsedPercentOf(cur.val, resolved))
                  ELSE <<"0",".","0">>,
                !.ShutdownHumanized = tm.Shutdown,
                !.ShutdownLimit = tm.ShutdownLimit,
                !.ShutdownCelsius =
                  IF shutdownLimit.err.kind = "none"
                  THEN FormatFloat2(shutdownLimit.val) ELSE <<>>,
                !.SlowdownHumanized = tm.Slowdown,
                !.SlowdownLimit = tm.SlowdownLimit,
                !.SlowdownCelsius =
                  IF slowdown.err.kind = "none"
                  THEN FormatFloat2(slowdown.val) ELSE <<>>,
                !.MaxOperatingLimit = tm.MaxOperatingLimit,
                !.Target = tm.Target,
                !.MemoryCurrent = tm.MemoryCurrent,
                !.MemoryMaxOperatingLimit = tm.MemoryMaxOperatingLimit],
           err |-> NoErr]

TemperatureInputs ==
  {[TemperatureNA EXCEPT !.Current = c, !.Limit = l, !.Shutdown = sd,
                         !.ShutdownLimit = sdl, !.Slowdown = sl, !.SlowdownLimit = sll] :
     c \in {<<"7","5"," ","C">>, <<"4","5",".","5"," ","C">>, NotAvailable, <<"7","5">>},
     l \in {NotAvailable, <<"1","0","0"," ","C">>, <<"0"," ","C">>, <<"1","0","0"," ","F">>},
     sd \in {NotAvailable, <<"9","5"," ","C">>, <<"0"," ","C">>},
     sdl \in {NotAvailable, <<"9","2"," ","C">>},
     sl \in {NotAvailable, <<"9","0"," ","C">>, <<"0"," ","C">>},
     sll \in {NotAvailable, <<"8","7"," ","C">>}}

InitTemperatureParse ==
  /\ MonitorIdle
  /\ \E tm \in TemperatureInputs :
       fn = [op |-> "TemperatureParse", done |-> FALSE, arg |-> tm]

CallTemperatureParse ==
  /\ fn.op = "TemperatureParse"
  /\ ~fn.done
  /\ fn' = [fn EXCEPT !.done = TRUE] @@ ("res" :> TemperatureParse(fn.arg))
  /\ UNCHANGED monitorVars

SpecTemperatureParse == InitTemperatureParse /\ [][CallTemperatureParse]_vars

\* the reading of a field in hundredths of a degree, -1 when it has none
Reading(v) ==
  CASE v = <<"7", "5", " ", "C">> -> 7500
    [] v = <<"4", "5", ".", "5", " ", "C">> -> 4550
    [] v = <<"1", "0", "0", " ", "C">> -> 10000
    [] v = <<"9", "5", " ", "C">> -> 9500
    [] v = <<"9", "2", " ", "C">> -> 9200
    [] v = <<"9", "0", " ", "C">> -> 9000
    [] v = <<"8", "7", " ", "C">> -> 8700
    [] v = <<"0", " ", "C">> -> 0
    [] OTHER -> -1

\* a fallback reading: the plain field when it has a reading, else the limit field
Fallback(plain, lim) == IF Reading(plain) >= 0 THEN Reading(plain) ELSE Reading(lim)

\* the limit the claim resolves: the explicit limit when it has a reading, else
\* the shutdown reading, else the slowdown reading (a fallback counts when it
\* is above zero), 0 when there is none
Resolved(tm) ==
  IF Reading(tm.Limit) >= 0 THEN Reading(tm.Limit)
  ELSE IF Fallback(tm.Shutdown, tm.ShutdownLimit) > 0
       THEN Fallback(tm.Shutdown, tm.ShutdownLimit)
  ELSE IF Fallback(tm.Slowdown, tm.SlowdownLimit) > 0
       THEN Fallback(tm.Slowdown, tm.SlowdownLimit)
  ELSE 0

RewriteLines ==
  <<<<>>,
    <<"=","=","=","=","=","N","V","S","M","I"," ","L","O","G","=","=","=","=","=">>,
    <<"G","P","U"," ","0","0","0","0","0","0","0","0",":","0","1",":","0","0",".","0">>,
    <<"G","P","U"," ","0","0","0","0","0","0","0","0",":","0","2",":","0","0",".","0">>,
    <<" "," "," "," ","P","r","o","d","u","c","t"," ","N","a","m","e"," ",":"," ","H","1","0","0">>,
    <<" "," "," "," ","T","e","m","p","e","r","a","t","u","r","e">>,
    <<" "," "," "," ","P","r","o","c","e","s","s","e","s"," ",":"," ","N","o","n","e">>,
    <<" "," "," "," "," "," "," "," ","H","W"," ","S","l","o","w","d","o","w","n"," ",":"," ","A","c","t","i","v","e">>,
    <<" "," "," "," "," "," "," "," "," "," "," "," ","H","W"," ","T","h","e","r","m","a","l"," ","S","l","o","w","d","o","w","n"," ",":"," ","N","o","t"," ","A","c","t","i","v","e">>,
    <<" "," "," "," "," "," "," "," "," "," "," "," ","N","o","n","e">>,
    <<" "," "," "," ","P","r","o","c","e","s","s"," ","N","a","m","e"," ",":"," ","p","y","t","h","o","n">>,
    <<"G","P","U"," ","U","U","I","D"," ",":"," ","G","P","U","-","1">>>>

\* lines of a document of the rewrite pass
MaxRewriteLines == 3

RewriteDocuments ==
  UNION {[1..n -> {RewriteLines[k] : k \in DOMAIN RewriteLines}] : n \in 1..MaxRewriteLines}

\* bytes.Split has run; the loop is before its first iteration
InitRewrite ==
  /\ MonitorIdle
  /\ \E splits \in RewriteDocuments :
       fn = [op |-> "Rewrite", done |-> FALSE, arg |-> splits, i |-> 0,
             st |-> RewriteStart]

\* one iteration of `for _, currentLine := range splits`
RewriteIterate ==
  /\ fn.op = "Rewrite"
  /\ ~fn.done
  /\ fn' = [fn EXCEPT !.i = fn.i + 1,
                      !.st = RewriteStep(fn.st, fn.arg[fn.i + 1]),
                      !.done = (fn.i + 1 = Len(fn.arg))]
  /\ UNCHANGED monitorVars

SpecRewrite == InitRewrite /\ [][RewriteIterate]_vars

\* ---- what the claims about the rewrite pass are stated with
DevicePrefix == <<"G","P","U"," ","0","0","0","0","0">>

\* a line the pass keeps: not empty, not a banner
Retained(line) ==
  /\ line # <<>>
  /\ ~\E k \in 1..Len(line) :
        \/ (k + 2 <= Len(line) /\ SubSeq(line, k, k + 2) = <<"=","=","=">>)
        \/ (k + 8 <= Len(line) /\ SubSeq(line, k, k + 8) = <<"N","V","S","M","I"," ","L","O","G">>)

IsDeviceBlock(line) ==
  /\ Retained(line)
  /\ Len(line) >= Len(DevicePrefix)
  /\ SubSeq(line, 1, Len(DevicePrefix)) = DevicePrefix

\* the device-block lines among the first n lines
DeviceBlocksBefore(splits, n) == Cardinality({k \in 1..n : IsDeviceBlock(splits[k])})

Digit(k) == <<"0", "1", "2", "3", "4", "5", "6", "7", "8", "9">>[k + 1]

Indent(line) ==
  IF \A k \in 1..Len(line) : line[k] = " " THEN Len(line)
  ELSE Min({k \in 1..Len(line) : line[k] # " "}) - 1

LastLine(lines) == lines[Len(lines)]

\* the loop has just consumed the line fn.arg[fn.i + 1]
Iterates == fn.op = "Rewrite" /\ ~fn.done /\ fn'.i = fn.i + 1

\* C18: the k-th device-block line (k from 0) is replaced by the key
\* "GPU<k>:", and the counter grows by one on a device-block line and stays
\* as it is on every other line.
C18_DeviceCounter ==
  [][Iterates =>
       LET line == fn.arg[fn.i + 1]
           k == DeviceBlocksBefore(fn.arg, fn.i)
       IN IF IsDeviceBlock(line)
          THEN /\ fn'.st.gpuCursor = fn.st.gpuCursor + 1
               /\ fn.st.gpuCursor = k
               /\ LastLine(fn'.st.processedLines) = <<"G", "P", "U", Digit(k), ":">>
          ELSE fn'.st.gpuCursor = fn.st.gpuCursor]_vars

\* the second of two device-block lines, with other lines around, became GPU1:
C18_Witness ==
  /\ fn.op = "Rewrite"
  /\ fn.done
  /\ Len(fn.arg) = 3
  /\ IsDeviceBlock(fn.arg[1])
  /\ ~IsDeviceBlock(fn.arg[2])
  /\ Retained(fn.arg[2])
  /\ IsDeviceBlock(fn.arg[3])
  /\ fn.st.gpuCursor = 2
  /\ LastLine(fn.st.processedLines) = <<"G", "P", "U", "1", ":">>

\* the rewritten lines of the n-th device (n from 0): those after its key up
\* to the next device's key
DeviceBlock(lines, n) ==
  {p \in DOMAIN lines :
     /\ \E q \in 1..(p - 1) : lines[q] = <<"G", "P", "U", Digit(n), ":">>
     /\ ~\E q \in 1..p : lines[q] = <<"G", "P", "U", Digit(n + 1), ":">>}

\* the line is "ID: <raw>" below the top level
IsChildID(line, raw) ==
  /\ Indent(line) > 0
  /\ SubSeq(line, Indent(line) + 1, Len(line)) = <<"I", "D", ":", " ">> \o raw

\* C19 (as claimed): when the pass is over, every device-block line has had
\* its raw text emitted exactly once as an "ID: <raw>" line that is a child
\* of that device's "GPU<N>:" key, also when the next retained line is a
\* device-block line or when there is none.
C19_IDEmittedOnceAsChild ==
  (fn.op = "Rewrite" /\ fn.done) =>
    \A k \in DOMAIN fn.arg :
      IsDeviceBlock(fn.arg[k]) =>
        Cardinality({p \in DeviceBlock(fn.st.processedLines,
                                       DeviceBlocksBefore(fn.arg, k - 1)) :
                       IsChildID(fn.st.processedLines[p], fn.arg[k])}) = 1

\* the four rules, each with its guard
Rule1(line) == IsDeviceBlock(line)
Rule2(line) == ~\E k \in DOMAIN line : line[k] = ":"
Rule3(line) ==
  \E n \in 4..Len(line) :
    /\ SubSeq(line, n - 3, n) = <<"N","o","n","e">>
    /\ \A k \in (n + 1)..Len(line) : line[k] = " "
NestedKeys ==
  {<<"H","W"," ","S","l","o","w","d","o","w","n">>, <<"H","W"," ","T","h","e","r","m","a","l"," ","S","l","o","w","d","o","w","n">>, <<"P","r","o","c","e","s","s"," ","I","D">>, <<"P","r","o","c","e","s","s"," ","T","y","p","e">>,
   <<"P","r","o","c","e","s","s"," ","N","a","m","e">>}
KeyOf(line) ==
  LET colons == {k \in DOMAIN line : line[k] = ":"}
      body == IF colons = {} THEN line ELSE SubSeq(line, 1, Min(colons) - 1)
  IN TrimSpace(body)
Rule4(prev) ==
  \E key \in NestedKeys :
    /\ Len(KeyOf(prev)) >= Len(key)
    /\ SubSeq(KeyOf(prev), 1, Len(key)) = key

\* the line has lost its own indentation for that of the line before
DeNested(old, new, prev) ==
  /\ Indent(new) = Indent(prev)
  /\ \/ SubSeq(new, Indent(new) + 1, Len(new)) = SubSeq(old, Indent(old) + 1, Len(old))
     \/ SubSeq(new, Indent(new) + 1, Len(new)) =
          <<"P","r","o","c","e","s","s"," ">> \o SubSeq(old, Indent(old) + 1, Len(old))

\* C20: a retained line is rewritten by the first rule whose guard it matches,
\* in the order device-block, section header without colon, None to null,
\* de-nest, and by that rule only; a line that matches none is kept as it is.
C20_FirstRuleOnly ==
  [][(Iterates /\ Retained(fn.arg[fn.i + 1])) =>
       LET line == fn.arg[fn.i + 1]
           prev == IF fn.st.processedLines = <<>> THEN <<>>
                   ELSE LastLine(fn.st.processedLines)
           new == LastLine(fn'.st.processedLines)
       IN CASE Rule1(line) ->
                 new = <<"G", "P", "U", Digit(fn.st.gpuCursor), ":">>
            [] ~Rule1(line) /\ Rule2(line) -> new = line \o <<":">>
            [] ~Rule1(line) /\ ~Rule2(line) /\ Rule3(line) ->
                 /\ Len(new) = Len(line)
                 /\ Indent(new) = Indent(line)
                 /\ \E k \in 1..(Len(line) - 3) :
                      /\ SubSeq(line, k, k + 3) = <<"N","o","n","e">>
                      /\ new = SubSeq(line, 1, k - 1) \o <<"n","u","l","l">>
                                 \o SubSeq(line, k + 4, Len(line))
            [] ~Rule1(line) /\ ~Rule2(line) /\ ~Rule3(line) /\ Rule4(prev) ->
                 DeNested(line, new, prev)
            [] OTHER -> new = line]_vars

\* a colon-free line under "HW Slowdown" got its colon and kept its place
C20_Witness ==
  /\ fn.op = "Rewrite"
  /\ fn.i = 2
  /\ KeyOf(fn.arg[1]) = <<"H","W"," ","S","l","o","w","d","o","w","n">>
  /\ fn.arg[2] = <<" "," "," "," "," "," "," "," "," "," "," "," ","N","o","n","e">>
  /\ LastLine(fn.st.processedLines) = <<" "," "," "," "," "," "," "," "," "," "," "," ","N","o","n","e",":">>

ProcessKeys == {<<"P","r","o","c","e","s","s"," ","I","D">>, <<"P","r","o","c","e","s","s"," ","T","y","p","e">>, <<"P","r","o","c","e","s","s"," ","N","a","m","e">>}

\* the previously emitted line is less indented than the line and has one of
\* the doubly nested keys: it is the line's immediate parent
NestedParent(line, prev) == Rule4(prev) /\ Indent(prev) < Indent(line)

\* C21 (as claimed): a line that no earlier rule rewrites is de-nested exactly
\* when the previously emitted line is less indented and has a doubly nested
\* key: it is then emitted at that line's indentation, with "Process " in
\* front under a process key; a line at the same or a smaller indentation
\* than such a key is emitted unchanged.
C21_DeNestIffParent ==
  [][(/\ Iterates
      /\ Retained(fn.arg[fn.i + 1])
      /\ ~Rule1(fn.arg[fn.i + 1])
      /\ ~Rule2(fn.arg[fn.i + 1])
      /\ ~Rule3(fn.arg[fn.i + 1])) =>
       LET line == fn.arg[fn.i + 1]
           prev == IF fn.st.processedLines = <<>> THEN <<>>
                   ELSE LastLine(fn.st.processedLines)
           new == LastLine(fn'.st.processedLines)
           text == SubSeq(line, Indent(line) + 1, Len(line))
           underProcess ==
             \E key \in ProcessKeys :
               /\ Len(KeyOf(prev)) >= Len(key)
               /\ SubSeq(KeyOf(prev), 1, Len(key)) = key
       IN IF NestedParent(line, prev)
          THEN /\ Indent(new) = Indent(prev)
               /\ SubSeq(new, Indent(new) + 1, Len(new)) =
                    (IF underProcess THEN <<"P","r","o","c","e","s","s"," ">> ELSE <<>>) \o text
          ELSE new = line]_vars

\* ------------------------------------------- the device list of a decode
SubRecordNames == {"ECCErrors", "Temperature", "GPUPowerReadings", "FBMemoryUsage"}

\* the retained lines of a document
RetainedLines(b) == SelectSeq(BytesSplit(b, <<"\n">>), Retained)

\* the raw texts of the device-block lines that open a block with content (the
\* next retained line is indented), in the order of the document
RECURSIVE PopulatedDevices(_, _)
PopulatedDevices(lines, n) ==
  IF n = 0 THEN <<>>
  ELSE PopulatedDevices(lines, n - 1) \o
       (IF /\ IsDeviceBlock(lines[n])
           /\ n < Len(lines)
           /\ Indent(lines[n + 1]) > 0
        THEN <<lines[n]>> ELSE <<>>)

ZeroParsedSMIPowerReading ==
  [ID |-> "", PowerDrawW |-> <<>>, PowerDrawHumanized |-> <<>>,
   CurrentPowerLimitW |-> <<>>, CurrentPowerLimitHumanized |-> <<>>,
   UsedPercent |-> <<>>,
   RequestedPowerLimitW |-> <<>>, RequestedPowerLimitHumanized |-> <<>>,
   DefaultPowerLimitW |-> <<>>, DefaultPowerLimitHumanized |-> <<>>,
   MinPowerLimitW |-> <<>>, MinPowerLimitHumanized |-> <<>>,
   MaxPowerLimitW |-> <<>>, MaxPowerLimitHumanized |-> <<>>]

\* mutant of PowerFailure: the record filled so far is returned with the error
PowerFailureKeepsRecord(pr, err) == [pr |-> pr, err |-> err]

\* return ParsedSMIPowerReading{}, err
PowerFailure(pr, err) == [pr |-> ZeroParsedSMIPowerReading, err |-> err]

PowerParse(g) ==
  LET cur == GetW(g, "GetPowerDrawW")
      limit == GetW(g, "GetCurrentPowerLimitW")
      requested == GetW(g, "GetRequestedPowerLimitW")
      default == GetW(g, "GetDefaultPowerLimitW")
      min == GetW(g, "GetMinPowerLimitW")
      max == GetW(g, "GetMaxPowerLimitW")
      pr0 == [ZeroParsedSMIPowerReading EXCEPT
                !.ID = g.ID, !.PowerDrawHumanized = g.PowerDraw]
      pr1 == [pr0 EXCEPT !.PowerDrawW = FormatFloat2(cur.val),
                         !.CurrentPowerLimitHumanized = g.CurrentPowerLimit]
      pr2 == [pr1 EXCEPT !.CurrentPowerLimitW = FormatFloat2(limit.val),
                         !.UsedPercent =
                           IF limit.val > 0
                           THEN FormatFloat2(UsedPercentOf(cur.val, limit.val))
                           ELSE <<"0", ".", "0">>,
                         !.RequestedPowerLimitHumanized = g.RequestedPowerLimit]
      pr3 == [pr2 EXCEPT !.RequestedPowerLimitW = FormatFloat2(requested.val),
                         !.DefaultPowerLimitHumanized = g.DefaultPowerLimit]
      pr4 == [pr3 EXCEPT !.DefaultPowerLimitW = FormatFloat2(default.val),
                         !.MinPowerLimitHumanized = g.MinPowerLimit]
      pr5 == [pr4 EXCEPT !.MinPowerLimitW = FormatFloat2(min.val),
                         !.MaxPowerLimitHumanized = g.MaxPowerLimit]
      pr6 == [pr5 EXCEPT !.MaxPowerLimitW = FormatFloat2(max.val)]
  IN IF cur.err.kind # "none" THEN PowerFailure(pr0, cur.err)
     ELSE IF limit.err.kind # "none" THEN PowerFailure(pr1, limit.err)
     ELSE IF requested.err.kind # "none" THEN PowerFailure(pr2, requested.err)
     ELSE IF default.err.kind # "none" THEN PowerFailure(pr3, default.err)
     ELSE IF min.err.kind # "none" THEN PowerFailure(pr4, min.err)
     ELSE IF max.err.kind # "none" THEN PowerFailure(pr5, max.err)
     ELSE [pr |-> pr6, err |-> NoErr]

\* a reading, an absent one, one without unit and one that is no number
PowerValues == {<<"2","5","0"," ","W">>, NotAvailable, <<"2","5","0">>, <<"a","b","c"," ","W">>}

PowerInputs ==
  {[PowerNA EXCEPT !.PowerDraw = f[1], !.CurrentPowerLimit = f[2],
                   !.RequestedPowerLimit = f[3], !.DefaultPowerLimit = f[4],
                   !.MinPowerLimit = f[5], !.MaxPowerLimit = f[6]] :
     f \in [1..6 -> PowerValues]}

InitPowerParse ==
  /\ MonitorIdle
  /\ \E g \in PowerInputs : fn = [op |-> "PowerParse", done |-> FALSE, arg |-> g]

CallPowerParse ==
  /\ fn.op = "PowerParse"
  /\ ~fn.done
  /\ fn' = [fn EXCEPT !.done = TRUE] @@ ("res" :> PowerParse(fn.arg))
  /\ UNCHANGED monitorVars

SpecPowerParse == InitPowerParse /\ [][CallPowerParse]_vars

\* the six fields in the order Parse reads them
PowerFieldOrder ==
  <<"PowerDraw", "CurrentPowerLimit", "RequestedPowerLimit", "DefaultPowerLimit",
    "MinPowerLimit", "MaxPowerLimit">>

\* the field holds a reading in watts
ParsesAsWatts(v) == v = <<"2", "5", "0", " ", "W">>

FailingFields(g) == {k \in 1..6 : ~ParsesAsWatts(g[PowerFieldOrder[k]])}

\* C25: the power normalization succeeds exactly when the six fields parse;
\* when one does not, it returns the error of the first such field and a
\* record with no field set, the identifier included.
C25_PowerAllOrNothing ==
  (fn.op = "PowerParse" /\ fn.done) =>
    LET bad == FailingFields(fn.arg)
        first == CHOOSE k \in bad : \A j \in bad : k <= j
        v == fn.arg[PowerFieldOrder[first]]
    IN IF bad = {}
       THEN /\ fn.res.err.kind = "none"
            /\ fn.res.pr.ID = fn.arg.ID
            /\ fn.res.pr.MaxPowerLimitW = <<"2", "5", "0", ".", "0", "0">>
            /\ fn.res.pr.UsedPercent = <<"1", "0", "0", ".", "0", "0">>
       ELSE /\ fn.res.err.kind =
                 (IF v = <<"N", "/", "A">> THEN "absent"
                  ELSE IF v = <<"2", "5", "0">> THEN "format" ELSE "parse")
            /\ fn.res.err.kind = "format" => fn.res.err.shown = v
            /\ fn.res.pr.ID = ""
            /\ \A f \in DOMAIN fn.res.pr \ {"ID"} : fn.res.pr[f] = <<>>

\* only the last field fails: the five parsed before it are not returned
C25_Witness ==
  /\ fn.op = "PowerParse"
  /\ fn.done
  /\ FailingFields(fn.arg) = {6}
  /\ fn.res.err.kind = "format"
  /\ fn.res.pr.ID = ""
  /\ fn.res.pr.PowerDrawW = <<>>

\* ------------------------------------------------------------ GetSMIOutput
\* what RunSMI returns: an error with its text, or the output
RunFailed(msg) == [failed |-> TRUE, msg |-> msg, out |-> <<>>]
RunOutput(out) == [failed |-> FALSE, msg |-> <<>>, out |-> out]

ErrRunSMI == [kind |-> "exec", line |-> 0, into |-> ""]

NoSummaryFailure == [isNil |-> TRUE, msg |-> <<>>]

\* a *SMIOutput with its Summary and SummaryFailure fields
WithSummary(doc, summary, failure) ==
  doc @@ [Summary |-> summary, SummaryFailure |-> failure]

\* GetSMIOutput: qb is what "nvidia-smi --query" returns, sb what "nvidia-smi"
\* returns
GetSMIOutput(qb, sb) ==
  IF qb.failed
  THEN [doc |-> WithSummary(NilDocument, <<>>, NoSummaryFailure), err |-> ErrRunSMI]
  ELSE LET parsed == ParseSMIQueryOutput(qb.out) IN
       IF parsed.err # NoError
       THEN [doc |-> WithSummary(NilDocument, <<>>, NoSummaryFailure), err |-> parsed.err]
       ELSE IF sb.failed
       THEN IF HasUnknownError(sb.msg)
            THEN [doc |-> WithSummary(parsed.doc, <<>>, [isNil |-> FALSE, msg |-> sb.msg]),
                  err |-> NoError]
            ELSE [doc |-> WithSummary(NilDocument, <<>>, NoSummaryFailure),
                  err |-> ErrRunSMI]
       ELSE IF HasUnknownError(sb.out)
            THEN [doc |-> WithSummary(parsed.doc, <<>>, [isNil |-> FALSE, msg |-> sb.out]),
                  err |-> NoError]
            ELSE [doc |-> WithSummary(parsed.doc, sb.out, NoSummaryFailure),
                  err |-> NoError]

\* lines of a query output after its header
MaxQueryLines == 2

\* the outcomes of "nvidia-smi --query": it does not run, or prints a document
\* with a whole header (the device count a number or not)
QueryRuns ==
  {RunFailed(<<"e","x","i","t"," ","s","t","a","t","u","s"," ","9">>)} \cup
  {RunOutput(SMIDocument([banner |-> TRUE, timestamp |-> TRUE, versions |-> TRUE,
                          attached |-> a], body)) :
     a \in {"1", "x"},
     body \in UNION {[1..n -> 1..Len(BodyLines)] : n \in 0..MaxQueryLines}}

\* the outcomes of "nvidia-smi"
SummaryRuns ==
  {RunFailed(<<"e","x","i","t"," ","s","t","a","t","u","s"," ","9">>),
   RunFailed(<<"U","n","a","b","l","e"," ","t","o"," ","d","e","t","e","r","m","i","n","e"," ","t","h","e"," ","d","e","v","i","c","e"," ","h","a","n","d","l","e",":"," ","U","n","k","n","o","w","n"," ","E","r","r","o","r">>),
   RunOutput(<<"G","P","U","0",":"," ","U","n","k","n","o","w","n"," ","E","r","r","o","r">>),
   RunOutput(<<"|"," ","0"," ","H","1","0","0"," ","|","\n","|"," ","E","R","R","!"," ","3","0","C"," ","|">>),
   RunOutput(<<>>)}

InitGetSMIOutput ==
  /\ MonitorIdle
  /\ \E qb \in QueryRuns, sb \in SummaryRuns :
       fn = [op |-> "GetSMIOutput", done |-> FALSE, arg |-> qb, summary |-> sb]

CallGetSMIOutput ==
  /\ fn.op = "GetSMIOutput"
  /\ ~fn.done
  /\ fn' = [fn EXCEPT !.done = TRUE] @@ ("res" :> GetSMIOutput(fn.arg, fn.summary))
  /\ UNCHANGED monitorVars

\* the acquisition, and the document-level scan on documents of its own
SpecGetSMIOutput ==
  /\ (InitGetSMIOutput \/ InitFindGPUErrs)
  /\ [][CallGetSMIOutput \/ CallFindGPUErrs]_vars

\* the entries of the devices of a document
RECURSIVE DeviceEntries(_, _)
DeviceEntries(gpus, n) ==
  IF n = 0 THEN 0 ELSE DeviceEntries(gpus, n - 1) + Len(FindErrs(gpus[n]).elems)

\* the lines of a summary that hold the marker
MarkerCount(s) ==
  LET lines == BytesSplit(s, <<"\n">>) IN Cardinality({k \in DOMAIN lines : HasMarker(lines[k])})

\* C23: FindGPUErrs reports the summary's acquisition failure and does not
\* scan the summary when the document has such a failure, and scans the
\* summary and reports no failure otherwise; a document that GetSMIOutput
\* returns never has a summary and a summary failure together.
C23_FailureOrScan ==
  /\ (fn.op = "FindGPUErrs" /\ fn.done) =>
       LET o == fn.arg
           nDev == DeviceEntries(o.GPUs, Len(o.GPUs))
           nAtt == IF o.AttachedGPUs # Len(o.GPUs) THEN 1 ELSE 0
       IN IF ~o.SummaryFailure.isNil
          THEN /\ Len(fn.res.elems) = nDev + 1 + nAtt
               /\ fn.res.elems[nDev + 1] = o.SummaryFailure.msg
          ELSE /\ Len(fn.res.elems) = nDev + MarkerCount(o.Summary) + nAtt
               /\ \A k \in 1..MarkerCount(o.Summary) :
                    fn.res.elems[nDev + k] = FindSummaryErr(o.Summary).elems[k]
  /\ (fn.op = "GetSMIOutput" /\ fn.done /\ ~fn.res.doc.isNil) =>
       ~(fn.res.doc.Summary # <<>> /\ ~fn.res.doc.SummaryFailure.isNil)

\* a document with a failure and a summary that has the marker: the failure
\* is the only entry
C23_Witness ==
  /\ fn.op = "FindGPUErrs"
  /\ fn.done
  /\ ~fn.arg.SummaryFailure.isNil
  /\ MarkerCount(fn.arg.Summary) = 2
  /\ fn.arg.GPUs = <<>>
  /\ fn.arg.AttachedGPUs = 0
  /\ fn.res.elems = <<fn.arg.SummaryFailure.msg>>

\* C26 (as claimed): when the decoder returns a Document with the salvaged
\* header and a decode error, GetSMIOutput returns a non-nil Document.
C26_FallbackReachesCaller ==
  (/\ fn.op = "GetSMIOutput"
   /\ fn.done
   /\ ~fn.arg.failed
   /\ ~ParseSMIQueryOutput(fn.arg.out).doc.isNil
   /\ ParseSMIQueryOutput(fn.arg.out).err # NoError
   /\ ~fn.summary.failed) =>
    ~fn.res.doc.isNil


\* ======================================================= the device monitor
Count(x, seq) == Cardinality({i \in DOMAIN seq : seq[i] = x})

\* C1: Shutdown is idempotent. A Shutdown call whose native release calls
\* succeed returns no error, and a Shutdown call made after a Shutdown has
\* returned no error (the second of two calls in sequence, in particular)
\* returns no error and is a no-op: it cancels nothing and releases neither
\* the event set nor the library.
C1_ShutdownIdempotent ==
  lastOp.op = "Shutdown" =>
    /\ ({"free_fail", "lib_fail"} \cap lastOp.acts = {} => lastOp.err = NIL)
    /\ (lastOp.preShutdown # "never" => lastOp.err = NIL /\ lastOp.acts = {})

\* the second of two Shutdown calls in sequence has returned, the first having
\* released both handles
C1_Witness ==
  /\ lastOp.op = "Shutdown"
  /\ lastOp.preShutdown = "last"
  /\ releases = <<"eventSet", "lib">>

\* C2: after a Shutdown call has returned success, every later Get call
\* returns the "nvml not initialized" error with a nil output and issues no
\* per-device query, whatever calls were made in between.
C2_GetAfterShutdown ==
  (lastOp.op = "Get" /\ lastOp.preShutdown # "never") =>
    /\ lastOp.err = ErrNotInitialized
    /\ lastOp.outNil
    /\ lastOp.queries = 0

\* Get has returned on a monitor that was started with devices and then shut
\* down
C2_Witness ==
  /\ lastOp.op = "Get"
  /\ lastOp.preShutdown # "never"
  /\ startedOK
  /\ devices # {}

\* C3: a wait that returns the timeout outcome never puts an event on the
\* queue: every event ever put on the queue comes from a wait that returned
\* success or a failure other than the timeout, no two events come from the
\* same wait, and a loop that has just timed out holds nothing to publish.
C3_TimeoutPublishesNothing ==
  /\ \A i \in DOMAIN published :
       /\ published[i].src \in {SUCCESS, ERROR_UNKNOWN}
       /\ published[i].wait \in 1..nWaits
       /\ \A j \in DOMAIN published : i # j => published[i].wait # published[j].wait
  /\ Len(published) <= nWaits
  /\ \A l \in Loops : lpc[l] = "timeout" => levt[l] = NoEvent

\* a wait has just timed out in a loop that published an event before
C3_Witness ==
  \E l \in Loops :
    /\ lpc[l] = "timeout"
    /\ \E i \in DOMAIN published : published[i].loop = l

\* C4 (as claimed): for any sequence of Start calls at most one background
\* poll loop is ever launched for the instance.
C4_AtMostOneLoop == nLoops <= 1

\* C5 (as claimed): a Start call on a monitor that is already Running returns
\* an error, and so does a Start call made after a Shutdown has succeeded.
C5_MisuseIsError ==
  lastOp.op = "Start" =>
    /\ (lastOp.preRunning => lastOp.err # NIL)
    /\ (lastOp.preShutdown # "never" => lastOp.err # NIL)

\* C6: over any number of Shutdown calls, including calls that follow a
\* Shutdown that returned an error, each native handle is released
\* successfully at most once, both exactly once when some Shutdown has
\* returned success, and the library handle is never released before the
\* event-registration handle has been released.
C6_ReleasedOnce ==
  /\ Count("eventSet", releases) <= 1
  /\ Count("lib", releases) <= 1
  /\ \A i \in DOMAIN releases :
       releases[i] = "lib" => \E j \in 1..(i - 1) : releases[j] = "eventSet"
  /\ shutdownOK => Count("eventSet", releases) = 1 /\ Count("lib", releases) = 1

\* a Shutdown has succeeded after an earlier Shutdown had released the event
\* set and then failed to shut the library down
C6_Witness ==
  /\ lastOp.op = "Shutdown"
  /\ lastOp.err = NIL
  /\ lastOp.acts = {"cancel", "lib_ok"}
  /\ releases = <<"eventSet", "lib">>

\* C7: once the cancellation signal has fired, every launched poll loop
\* eventually terminates, also when it is blocked publishing to a full queue
\* that nobody drains. Every Wait call is assumed to return; a Wait call on
\* a nil event set does not (the process dies of the panic), which ends the
\* loop with the process.
C7_LoopTerminates ==
  \A l \in Loops :
    (cancelled /\ lpc[l] # "none") ~> (lpc[l] = "done" \/ crashed)

\* a loop has returned, abandoning the event it could not publish to the full
\* queue that no consumer holds
C7_Witness ==
  /\ ~crashed
  /\ nLoops = 1
  /\ ~hasCh
  /\ Len(eventCh) = ChanCap
  /\ nWaits > Len(published)
  /\ \A l \in Loops : lpc[l] \in {"none", "done"}

\* loop l is at its publishing select
AtPublish(l) == lpc[l] = "pub"

Ascending(s) == \A i, j \in DOMAIN s : i < j => s[i] < s[j]

\* C15: a Get on a running monitor that a per-metric query fails returns the
\* error with a non-nil result that lists the devices taken from the map so
\* far, the one whose query failed included and last, and has issued every
\* query of the devices before it, the queries of that device up to the
\* failing one, and no other.
C15_GetStopsAtFirstFailure ==
  (lastOp.op = "Get" /\ lastOp.failed # <<0, 0>>) =>
    /\ lastOp.err = ErrQuery
    /\ ~lastOp.outNil
    /\ Len(lastOp.out) >= 1
    /\ lastOp.out[Len(lastOp.out)] = lastOp.failed[1]
    /\ Range(lastOp.out) \subseteq devices
    /\ Cardinality(Range(lastOp.out)) = Len(lastOp.out)
    /\ lastOp.queries = (Len(lastOp.out) - 1) * NMetrics + lastOp.failed[2]

C15_Witness ==
  /\ lastOp.op = "Get"
  /\ Running
  /\ lastOp.err = ErrQuery
  /\ lastOp.failed[2] = 1
  /\ Len(lastOp.out) = 1
  /\ Cardinality(devices) = 2
  /\ lastOp.queries = 1

\* C16 (as claimed): every device list Get returns, the partial one returned
\* with an error included, is in ascending order of device identifier.
C16_GetSorted ==
  (lastOp.op = "Get" /\ ~lastOp.outNil) => Ascending(lastOp.out)

\* a published event that reports a failed wait
IsWaitFailure(e) == e.src # SUCCESS /\ e.src # ERROR_TIMEOUT

\* C17: a loop that holds the event of a failed wait (neither success nor
\* timeout) and is not cancelled publishes that event, once, and goes back to
\* the top of the loop; the event carries the wait's failure as its error, no
\* event type, fault code 0, no critical flag and no detail; a loop returns
\* only at a cancellation.
C17_WaitFailurePublished ==
  [][\A l \in Loops :
       /\ (lpc[l] = "pub" /\ IsWaitFailure(levt[l]) /\ ~cancelled /\ lpc'[l] # "pub") =>
            /\ lpc'[l] = "top"
            /\ published' = Append(published, levt[l])
            /\ eventCh' = Append(eventCh, levt[l])
            /\ levt[l].Error = levt[l].src
            /\ levt[l].Xid = 0
            /\ levt[l].EventType = NIL
            /\ ~levt[l].XidCriticalError
            /\ levt[l].Detail = NIL
       /\ (lpc[l] = "waiting" /\ lpc'[l] # "waiting") => lpc'[l] \in {"timeout", "pub"}
       /\ (lpc[l] # "done" /\ lpc'[l] = "done") => cancelled
       /\ \A i, j \in DOMAIN published' :
            (i # j /\ IsWaitFailure(published'[i])) =>
              published'[i].wait # published'[j].wait]_vars

\* a failed wait's event is on the queue and its loop is at the next wait
C17_Witness ==
  \E i \in DOMAIN published :
    /\ IsWaitFailure(published[i])
    /\ published[i].Error = ERROR_UNKNOWN
    /\ ~cancelled
    /\ lpc[published[i].loop] = "waiting"
    /\ levt[published[i].loop] = NoEvent

\* C27: under every interleaving of the poll loop with Shutdown, the loop never
\* calls Wait on an event set that Shutdown has released or cleared: whenever
\* a loop makes the call of line 248, inst.eventSet is a live handle
C27_WaitOnLiveHandle ==
  [][\A l \in Loops :
       (lpc[l] = "call" /\ (lpc'[l] = "waiting" \/ crashed'))
         => (eventSet # NIL /\ "set" \notin Range(releases))]_vars

\* C29: a Start that fails while enumerating or registering the devices
\* launches no poll loop and leaves a monitor that was not Running not
\* Running, and a Get after it does not return the partially registered
\* devices with a nil error: a snapshot Get returns without an error lists
\* either no device or every device of the host
C29_FailedStartNotHealthy ==
  /\ (lastOp.op = "Start" /\ lastOp.err \in {ErrGetDevices, ErrDevice})
       => ("launch" \notin lastOp.acts /\ (~lastOp.preRunning => ~Running))
  /\ (lastOp.op = "Get" /\ lastOp.err = NIL /\ lastOp.out # <<>>)
       => Range(lastOp.out) = HostDevices

\* C28: StartDefaultInstance returns nil only when the default instance has
\* been started successfully, and the readiness channel is closed only once
\* an instance has started successfully
C28_DefaultStarted ==
  /\ (lastOp.op = "StartDefaultInstance" /\ lastOp.err = NIL) => startedOK
  /\ defaultInstanceReadyc = "closed" => startedOK

====
